---- MODULE Spec2Model ----
(***************************************************************************)
(* EnvMem (envmem-mcp): the tenant resolver of src/index.ts and the        *)
(* CloudflareVectorStore of src/cloudflare-vector-store.ts over the D1     *)
(* schema of migrations 0001/0002, the Vectorize index and Workers AI.     *)
(*                                                                         *)
(* Text is modelled as sequences of lower-case words; an API key and a     *)
(* user id are sequences of character codes.  Scores are exact rationals   *)
(* held as integers over a common denominator (no floating-point           *)
(* rounding).                                                              *)
(***************************************************************************)
EXTENDS Integers, Sequences, FiniteSets, TLC

(***************************************************************************)
(* Bounds                                                                  *)
(***************************************************************************)
\* longest API key enumerated by the tenant-resolver specification
MaxKeyLen == 2
\* number of metadata writes (each adds one indexing_status row) in a run
MaxWrites == 2

NULL == "NULL"
\* SQL NULL / undefined of a text-sequence or tuple valued field
None == <<>>

(***************************************************************************)
(* State                                                                   *)
(***************************************************************************)
VARIABLES
  migrated,         \* migration 0002 applied: env_variables has user_id
  env_variables,    \* D1 table env_variables (set of rows)
  indexing_status,  \* D1 table indexing_status (set of rows)
  vectorize,        \* Vectorize index (set of vectors with metadata)
  nextId,           \* AUTOINCREMENT counter of env_variables
  nextStatusId,     \* AUTOINCREMENT counter of indexing_status
  ret,              \* the last request and what it returned
  authA, authB,     \* two resolved requests of the tenant resolver
  matching,         \* entry points: records of the caller that match the query
  upserts,          \* concurrent upserts: each request's position and locals
  lastWrite,        \* concurrent upserts: the last metadata write (history)
  queue,            \* queue consumer: the messages of env-indexing-queue
  bulk              \* bulkInsert: the loop over the input records

dbVars == <<migrated, env_variables, indexing_status, vectorize, nextId, nextStatusId>>
\* state of the specifications of the entry points and of concurrent upserts
otherVars == <<matching, upserts, lastWrite, queue, bulk>>
vars == <<migrated, env_variables, indexing_status, vectorize, nextId, nextStatusId,
          ret, authA, authB, otherVars>>

NoRet == [op |-> "none"]
\* two requests served concurrently by the worker
Requests == {1, 2}
\* a request that has not arrived
Idle == [pc |-> "idle"]
NoWrite == [by |-> 0]
\* no queue is bound (QUEUE: requires paid plan)
NoQueue == <<>>

\* no bulkInsert running
NoBulk == [i |-> 0]
NoAuth == [userId |-> <<>>, apiKey |-> <<0>>]

(***************************************************************************)
(* Tenant resolver: getAuthContext / hashApiKey                            *)
(***************************************************************************)
\* A 32-bit integer is held as two 16-bit limbs <<hi, lo>> (two's complement)
Limb == 65536

Int32(hi, lo) == <<hi % Limb, lo % Limb>>

\* hash << 5
ShiftLeft5(h) == Int32(h[1] * 32 + (h[2] * 32) \div Limb, h[2] * 32)

\* a - b, wrapped to 32 bits
Sub32(a, b) ==
  LET lo == a[2] - b[2]
      borrow == IF lo < 0 THEN 1 ELSE 0
  IN  Int32(a[1] - b[1] - borrow + Limb, lo + Limb)

\* a + char for a character code (0..65535), wrapped to 32 bits
AddChar32(a, char) == Int32(a[1] + (a[2] + char) \div Limb, a[2] + char)

IsNegative32(h) == h[1] >= Limb \div 2

\* one loop iteration: hash = ((hash << 5) - hash) + char; hash = hash & hash
HashStep(hash, char) == AddChar32(Sub32(ShiftLeft5(hash), hash), char)

RECURSIVE HashLoop(_, _, _)
HashLoop(apiKey, i, hash) ==
  IF i > Len(apiKey) THEN hash
  ELSE HashLoop(apiKey, i + 1, HashStep(hash, apiKey[i]))

\* Math.abs: the magnitude, as an unsigned two-limb number (2^31 included)
Abs(h) == IF IsNegative32(h) THEN Sub32(<<0, 0>>, h) ELSE h

\* character code of a base-36 digit: 0-9 then a-z
DigitChar(d) == IF d < 10 THEN 48 + d ELSE 87 + d

\* quotient and remainder of an unsigned two-limb number by 36
DivMod36(n) ==
  LET t == (n[1] % 36) * Limb + n[2]
  IN  [quot |-> <<n[1] \div 36, t \div 36>>, rem |-> t % 36]

\* Number.prototype.toString(36) of a non-negative integer
RECURSIVE ToString36(_)
ToString36(n) ==
  LET d == DivMod36(n)
  IN  IF d.quot = <<0, 0>> THEN <<DigitChar(d.rem)>>
      ELSE Append(ToString36(d.quot), DigitChar(d.rem))

\* "user_"
UserPrefix == <<117, 115, 101, 114, 95>>
\* "anonymous"
Anonymous == <<97, 110, 111, 110, 121, 109, 111, 117, 115>>

hashApiKey(apiKey) == UserPrefix \o ToString36(Abs(HashLoop(apiKey, 1, <<0, 0>>)))

\* a request without a credential carries the empty key (all four lookups
\* return null or the empty string, both falsy)
NoKey == <<>>

\* a resolver that keeps state between requests: the key is salted once a
\* request has been resolved
getAuthContextStateful(apiKey) ==
  IF apiKey = NoKey
  THEN [userId |-> Anonymous, apiKey |-> NoKey]
  ELSE [userId |-> hashApiKey(IF authA = NoAuth THEN apiKey ELSE apiKey \o <<65>>),
        apiKey |-> apiKey]

getAuthContext(apiKey) ==
  IF apiKey = NoKey
  THEN [userId |-> Anonymous, apiKey |-> NoKey]
  ELSE [userId |-> hashApiKey(apiKey), apiKey |-> apiKey]

\* characters 'A', 'B', 'a' of the enumerated API keys
KeyChars == {65, 66, 97}

RECURSIVE KeysOfLen(_)
KeysOfLen(n) ==
  IF n = 0 THEN {<<>>}
  ELSE {Append(k, c) : k \in KeysOfLen(n - 1), c \in KeyChars}

\* keys long enough for the hash to leave the positive 32-bit range
LongKeys == {<<97, 97, 97, 97, 97, 97, 97>>, <<66, 97, 66, 97, 66, 97, 66, 97>>}

ApiKeys == LongKeys \cup UNION {KeysOfLen(n) : n \in 0..MaxKeyLen}

\* the credentials of the requests sent to the store: none, "A", "B"
Credentials == {NoKey, <<65>>, <<66>>}

\* constructor: this.userId = auth?.userId || 'anonymous'
StoreUserId(auth) == IF auth.userId = None THEN Anonymous ELSE auth.userId

Tenants == {StoreUserId(getAuthContext(k)) : k \in Credentials}

(***************************************************************************)
(* Input records (EnvVariable) and queries                                 *)
(***************************************************************************)
AiServices == <<"ai", "services">>

EnvOpenAi ==
  [name |-> <<"openai", "api", "key">>, description |-> <<"openai", "secret">>,
   category |-> AiServices, service |-> <<"openai">>, required |-> TRUE,
   keywords |-> {"gpt"}]

EnvOpenAiV2 ==
  [name |-> <<"openai", "api", "key">>, description |-> <<"gpt", "access">>,
   category |-> AiServices, service |-> <<"openai">>, required |-> FALSE,
   keywords |-> {"gpt"}]

EnvDatabase ==
  [name |-> <<"database", "url">>, description |-> <<"postgres", "secret">>,
   category |-> <<"database">>, service |-> <<"supabase">>, required |-> TRUE,
   keywords |-> {}]

EnvVars == {EnvOpenAi, EnvOpenAiV2, EnvDatabase}

Names == {e.name : e \in EnvVars}



(***************************************************************************)
(* D1 schema and the capability probe                                      *)
(***************************************************************************)
\* checkMultiTenant on a fresh store: SELECT user_id succeeds iff the column
\* exists (every request constructs its own store, so the cache starts false)
checkMultiTenant == migrated

\* rows of env_variables; writer / writerTagged are history fields: the
\* tenant whose upsert last wrote the row, and whether that upsert bound
\* user_id (multi-tenant branch)
RowOf(id, user_id, envVar, vector_id, indexed_at, writer, tagged) ==
  [id |-> id, user_id |-> user_id, name |-> envVar.name,
   description |-> envVar.description, category |-> envVar.category,
   service |-> envVar.service, required |-> envVar.required,
   keywords |-> envVar.keywords, vector_id |-> vector_id,
   indexed_at |-> indexed_at, writer |-> writer, writerTagged |-> tagged]

\* SELECT ... WHERE [user_id = ? AND] name = ?
RowsByName(userId, name, multiTenant) ==
  {r \in env_variables : r.name = name /\ (multiTenant => r.user_id = userId)}

\* SELECT * FROM env_variables WHERE id = ? [AND user_id = ?]
getById(userId, id, multiTenant) ==
  {r \in env_variables : r.id = id /\ (multiTenant => r.user_id = userId)}

\* `env-${this.userId}-${result.id}`
VectorId(userId, id) == <<"env", userId, id>>

\* enrichText: name and category with '_' replaced by ' ', description,
\* service and keywords; empty parts dropped (joined with '. ')
enrichText(envVar) ==
  [parts |-> SelectSeq(<<envVar.name, envVar.description, envVar.category,
                         envVar.service>>, LAMBDA t : t # <<>>),
   keywords |-> envVar.keywords]

\* the upsert with description missing from the DO UPDATE SET list
MetadataWriteKeepsDescription(userId, envVar, multiTenant) ==
  LET target == RowsByName(userId, envVar.name, multiTenant)
      sameName == {r \in env_variables : r.name = envVar.name}
  IN  IF target # {}
      THEN LET old == CHOOSE r \in target : TRUE
               new == [RowOf(old.id, old.user_id, envVar, old.vector_id,
                             old.indexed_at, userId, multiTenant)
                       EXCEPT !.description = old.description]
           IN  [ok |-> TRUE, id |-> old.id, inserted |-> FALSE,
                prior |-> old.description, rows |-> (env_variables \ {old}) \cup {new}]
      ELSE IF sameName # {}
      THEN [ok |-> FALSE, id |-> 0, inserted |-> FALSE, prior |-> None,
            rows |-> env_variables]
      ELSE [ok |-> TRUE, id |-> nextId, inserted |-> TRUE, prior |-> None,
            rows |-> env_variables \cup
                     {RowOf(nextId, IF multiTenant THEN userId ELSE Anonymous,
                            envVar, None, NULL, userId, multiTenant)}]

\* the upsert written with ON CONFLICT DO NOTHING
MetadataWriteDoNothing(userId, envVar, multiTenant) ==
  LET target == RowsByName(userId, envVar.name, multiTenant)
      sameName == {r \in env_variables : r.name = envVar.name}
  IN  IF target # {}
      THEN LET old == CHOOSE r \in target : TRUE
           IN  [ok |-> TRUE, id |-> old.id, inserted |-> FALSE,
                prior |-> old.description, rows |-> env_variables]
      ELSE IF sameName # {}
      THEN [ok |-> FALSE, id |-> 0, inserted |-> FALSE, prior |-> None,
            rows |-> env_variables]
      ELSE [ok |-> TRUE, id |-> nextId, inserted |-> TRUE, prior |-> None,
            rows |-> env_variables \cup
                     {RowOf(nextId, IF multiTenant THEN userId ELSE Anonymous,
                            envVar, None, NULL, userId, multiTenant)}]

\* the upsert whose aborted statement is not rolled back
MetadataWriteAbortKeepsRow(userId, envVar, multiTenant) ==
  LET target == RowsByName(userId, envVar.name, multiTenant)
      sameName == {r \in env_variables : r.name = envVar.name}
  IN  IF target # {}
      THEN LET old == CHOOSE r \in target : TRUE
               new == RowOf(old.id, old.user_id, envVar, old.vector_id,
                            old.indexed_at, userId, multiTenant)
           IN  [ok |-> TRUE, id |-> old.id, inserted |-> FALSE,
                prior |-> old.description, rows |-> (env_variables \ {old}) \cup {new}]
      ELSE IF sameName # {}
      THEN [ok |-> FALSE, id |-> 0, inserted |-> FALSE, prior |-> None,
            rows |-> env_variables \cup
                     {RowOf(nextId, IF multiTenant THEN userId ELSE Anonymous,
                            envVar, None, NULL, userId, multiTenant)}]
      ELSE [ok |-> TRUE, id |-> nextId, inserted |-> TRUE, prior |-> None,
            rows |-> env_variables \cup
                     {RowOf(nextId, IF multiTenant THEN userId ELSE Anonymous,
                            envVar, None, NULL, userId, multiTenant)}]

\* INSERT ... ON CONFLICT(user_id, name) / ON CONFLICT(name) DO UPDATE
\* RETURNING id, under the constraints UNIQUE(name) of migration 0001 and
\* UNIQUE(user_id, name) of migration 0002.  ok = FALSE: the statement
\* aborts on UNIQUE(name), which is not the conflict target.
MetadataWrite(userId, envVar, multiTenant) ==
  LET target == RowsByName(userId, envVar.name, multiTenant)
      sameName == {r \in env_variables : r.name = envVar.name}
  IN  IF target # {}
      THEN LET old == CHOOSE r \in target : TRUE
               new == RowOf(old.id, old.user_id, envVar, old.vector_id,
                            old.indexed_at, userId, multiTenant)
           IN  [ok |-> TRUE, id |-> old.id, inserted |-> FALSE,
                prior |-> old.description, rows |-> (env_variables \ {old}) \cup {new}]
      ELSE IF sameName # {}
      THEN [ok |-> FALSE, id |-> 0, inserted |-> FALSE, prior |-> None,
            rows |-> env_variables]
      ELSE [ok |-> TRUE, id |-> nextId, inserted |-> TRUE, prior |-> None,
            rows |-> env_variables \cup
                     {RowOf(nextId, IF multiTenant THEN userId ELSE Anonymous,
                            envVar, None, NULL, userId, multiTenant)}]

\* VECTORIZE.insert: an id already in the index keeps its stored vector
\* the update written as two statements, of which only the first has run
MarkIndexedVectorOnly(rows, id, vectorId) ==
  {IF r.id = id THEN [r EXCEPT !.vector_id = vectorId] ELSE r : r \in rows}

\* UPDATE env_variables SET vector_id = ?, indexed_at = ? WHERE id = ?
MarkIndexed(rows, id, vectorId) ==
  {IF r.id = id THEN [r EXCEPT !.vector_id = vectorId, !.indexed_at = "now"] ELSE r
   : r \in rows}

VectorizeInsert(index, v) ==
  IF \E w \in index : w.id = v.id THEN index ELSE index \cup {v}

\* UPDATE indexing_status SET status = ?, ... WHERE env_variable_id = ?
SetStatus(table, envId, status, error) ==
  {IF s.env_variable_id = envId
   THEN [s EXCEPT !.status = status,
                  !.error_message = IF error = NULL THEN s.error_message ELSE error]
   ELSE s : s \in table}

UpsertFaults == {"none", "ai", "vectorize"}

\* the catch block leaving the status row as the upsert created it
StatusAfterNoCatch(fault) == IF fault = "none" THEN "indexed" ELSE "processing"

\* the status written when the try block completes / by the catch block
StatusAfter(fault) == IF fault = "none" THEN "indexed" ELSE "failed"

\* the indexed flag of the value returned from the try / the catch block
IndexedFlag(fault) == fault = "none"

Stmt(store, kind, tenant, byId) ==
  [store |-> store, kind |-> kind, tenant |-> tenant, byId |-> byId]

\* tenant bound by a statement of the multi-tenant / legacy branch
Bound(userId, multiTenant) == IF multiTenant THEN userId ELSE None

insertEnvVariable(key, envVar, fault) ==
  LET userId == StoreUserId(getAuthContext(key))
      multiTenant == checkMultiTenant
      w == MetadataWrite(userId, envVar, multiTenant)
      write == Stmt("env_variables", "write", Bound(userId, multiTenant), FALSE)
      processing == [id |-> nextStatusId, env_variable_id |-> w.id,
                     status |-> "processing", error_message |-> NULL,
                     retry_count |-> 0]
      vectorId == VectorId(userId, w.id)
      vector == [id |-> vectorId, userId |-> userId, envVariableId |-> w.id,
                 name |-> envVar.name, text |-> enrichText(envVar)]
  IN
  /\ ret = NoRet
  /\ nextStatusId <= MaxWrites
  /\ IF ~w.ok
     THEN \* the D1 error propagates; nothing was written
          /\ ret' = [op |-> "insertEnvVariable", userId |-> userId,
                     multiTenant |-> multiTenant, name |-> envVar.name,
                     envVar |-> envVar, fault |-> fault, raised |-> TRUE,
                     id |-> 0, indexed |-> FALSE, prior |-> w.prior,
                     stmts |-> {write}]
          /\ env_variables' = w.rows
          /\ UNCHANGED <<migrated, indexing_status, vectorize, nextId, nextStatusId>>
     ELSE /\ nextId' = IF w.inserted THEN nextId + 1 ELSE nextId
          /\ nextStatusId' = nextStatusId + 1
          /\ IF fault = "none"
             THEN /\ vectorize' = VectorizeInsert(vectorize, vector)
                  /\ env_variables' = MarkIndexed(w.rows, w.id, vectorId)
                  /\ indexing_status' =
                       SetStatus(indexing_status \cup {processing}, w.id,
                                 StatusAfter(fault), NULL)
             ELSE /\ vectorize' = vectorize
                  /\ env_variables' = w.rows
                  /\ indexing_status' =
                       SetStatus(indexing_status \cup {processing}, w.id,
                                 StatusAfter(fault), fault)
          /\ ret' = [op |-> "insertEnvVariable", userId |-> userId,
                     multiTenant |-> multiTenant, name |-> envVar.name,
                     envVar |-> envVar, fault |-> fault, raised |-> FALSE,
                     id |-> w.id, indexed |-> IndexedFlag(fault), prior |-> w.prior,
                     stmts |-> {write,
                                Stmt("indexing_status", "write", None, TRUE),
                                Stmt("env_variables", "write", None, TRUE)}
                               \cup (IF fault # "ai"
                                     THEN {Stmt("vectorize", "write", userId, FALSE)}
                                     ELSE {})]
          /\ UNCHANGED migrated
  /\ UNCHANGED <<authA, authB, otherVars>>

\* wrangler d1 migrations apply: 0002 adds user_id DEFAULT 'anonymous'
ApplyMigration ==
  /\ ret = NoRet
  /\ ~migrated
  /\ migrated' = TRUE
  /\ UNCHANGED <<env_variables, indexing_status, vectorize, nextId, nextStatusId,
                 ret, authA, authB, otherVars>>


(***************************************************************************)
(* Deletion                                                                *)
(***************************************************************************)
\* rows of indexing_status that reference one of the ids (FOREIGN KEY
\* env_variable_id REFERENCES env_variables(id), enforced by D1)
StatusOf(ids) == {s \in indexing_status : s.env_variable_id \in ids}

\* the vector delete without its try / catch: the failure leaves deleteByName
RethrowVectorDelete(threw) == threw

\* try { VECTORIZE.deleteByIds } catch (error) { console.error(...) }:
\* whether the failure leaves the try statement
CatchVectorDelete(threw) == FALSE

deleteByName(key, name, vectorizeFails) ==
  LET userId == StoreUserId(getAuthContext(key))
      multiTenant == checkMultiTenant
      found == RowsByName(userId, name, multiTenant)
      select == Stmt("env_variables", "read", Bound(userId, multiTenant), FALSE)
  IN
  /\ ret = NoRet
  /\ IF found = {}
     THEN /\ ret' = [op |-> "deleteByName", userId |-> userId,
                     multiTenant |-> multiTenant, name |-> name,
                     vectorizeFails |-> vectorizeFails, found |-> {},
                     vectorId |-> None, raised |-> FALSE,
                     result |-> FALSE, stmts |-> {select}]
          /\ UNCHANGED dbVars
     ELSE LET row == CHOOSE r \in found : TRUE
              threw == CatchVectorDelete(row.vector_id # None /\ vectorizeFails)
          IN
          /\ vectorize' = IF row.vector_id # None /\ ~vectorizeFails
                          THEN {v \in vectorize : v.id # row.vector_id}
                          ELSE vectorize
          /\ indexing_status' = IF threw THEN indexing_status
                                ELSE indexing_status \ StatusOf({row.id})
          /\ env_variables' = IF threw THEN env_variables
                              ELSE {r \in env_variables : r.id # row.id}
          /\ ret' = [op |-> "deleteByName", userId |-> userId,
                     multiTenant |-> multiTenant, name |-> name,
                     vectorizeFails |-> vectorizeFails, found |-> {row.id},
                     vectorId |-> row.vector_id, raised |-> threw,
                     result |-> ~threw,
                     stmts |-> {select,
                                Stmt("indexing_status", "write", None, TRUE),
                                Stmt("env_variables", "write", None, TRUE)}
                               \cup (IF row.vector_id # None
                                     THEN {Stmt("vectorize", "write", None, TRUE)}
                                     ELSE {})]
          /\ UNCHANGED <<migrated, nextId, nextStatusId>>
  /\ UNCHANGED <<authA, authB, otherVars>>

\* const batchSize = 100
batchSize == 100

\* rows in rowid order, the order of a table scan
RECURSIVE RowSeq(_)
RowSeq(rows) ==
  IF rows = {} THEN <<>>
  ELSE LET first == CHOOSE r \in rows : \A q \in rows : r.id <= q.id
       IN  <<first>> \o RowSeq(rows \ {first})

\* vectorIds.slice(i, i + batchSize) for i = 0, batchSize, ...
RECURSIVE Batches(_)
Batches(vectorIds) ==
  IF Len(vectorIds) = 0 THEN <<>>
  ELSE IF Len(vectorIds) <= batchSize THEN <<vectorIds>>
  ELSE <<SubSeq(vectorIds, 1, batchSize)>>
       \o Batches(SubSeq(vectorIds, batchSize + 1, Len(vectorIds)))

Range(f) == {f[i] : i \in DOMAIN f}

\* failAt = 0: no batch fails; failAt = k: deleteByIds throws on batch k,
\* which ends the loop
deleteAll(key, failAt) ==
  LET userId == StoreUserId(getAuthContext(key))
      multiTenant == checkMultiTenant
      envResults == RowSeq({r \in env_variables :
                              /\ multiTenant => r.user_id = userId
                              /\ r.vector_id # None})
      vectorIds == [i \in 1..Len(envResults) |-> envResults[i].vector_id]
      batches == Batches(vectorIds)
      sent == IF failAt = 0 THEN batches ELSE SubSeq(batches, 1, failAt)
      done == IF failAt = 0 THEN batches ELSE SubSeq(batches, 1, failAt - 1)
      removed == UNION {Range(done[i]) : i \in 1..Len(done)}
      envIds == {envResults[i].id : i \in 1..Len(envResults)}
      statusLeft == indexing_status \ StatusOf(envIds)
      doomed == {r \in env_variables : multiTenant => r.user_id = userId}
      \* DELETE FROM env_variables aborts when a doomed row is still
      \* referenced from indexing_status
      fkViolation == \E s \in statusLeft : s.env_variable_id \in {r.id : r \in doomed}
      stmts == {Stmt("env_variables", "read", Bound(userId, multiTenant), FALSE),
                Stmt("env_variables", "write", Bound(userId, multiTenant), FALSE)}
               \cup (IF envIds # {}
                     THEN {Stmt("vectorize", "write", None, TRUE),
                           Stmt("indexing_status", "write", None, TRUE)}
                     ELSE {})
  IN
  /\ ret = NoRet
  /\ failAt <= Len(batches)
  /\ vectorize' = {v \in vectorize : v.id \notin removed}
  /\ indexing_status' = statusLeft
  /\ env_variables' = IF fkViolation THEN env_variables ELSE env_variables \ doomed
  /\ ret' = [op |-> "deleteAll", userId |-> userId, multiTenant |-> multiTenant,
             raised |-> fkViolation, sent |-> sent, failed |-> (failAt # 0),
             deleted |-> IF fkViolation THEN 0 ELSE Cardinality(doomed),
             stmts |-> stmts]
  /\ UNCHANGED <<migrated, nextId, nextStatusId, authA, authB, otherVars>>

(***************************************************************************)
(* Reads                                                                   *)
(***************************************************************************)
\* rowToEnvVariable: userId = row.user_id || 'anonymous'
rowToEnvVariable(row) ==
  [id |-> row.id, userId |-> IF row.user_id = None THEN Anonymous ELSE row.user_id,
   name |-> row.name, description |-> row.description, category |-> row.category,
   service |-> row.service, required |-> row.required, keywords |-> row.keywords,
   writer |-> row.writer, writerTagged |-> row.writerTagged]

getByName(key, name) ==
  LET userId == StoreUserId(getAuthContext(key))
      multiTenant == checkMultiTenant
      found == RowsByName(userId, name, multiTenant)
  IN
  /\ ret = NoRet
  /\ ret' = [op |-> "getByName", userId |-> userId, multiTenant |-> multiTenant,
             name |-> name,
             result |-> {rowToEnvVariable(r).id : r \in found},
             stmts |-> {Stmt("env_variables", "read", Bound(userId, multiTenant), FALSE)}]
  /\ UNCHANGED <<dbVars, authA, authB, otherVars>>

\* getAll / getByService / getStats read env_variables under the same WHERE
\* user_id = ? (multi-tenant) or no tenant condition (legacy)
ScopedRows(userId, multiTenant) ==
  {r \in env_variables : multiTenant => r.user_id = userId}

getAll(key) ==
  LET userId == StoreUserId(getAuthContext(key))
      multiTenant == checkMultiTenant
  IN
  /\ ret = NoRet
  /\ ret' = [op |-> "getAll", userId |-> userId, multiTenant |-> multiTenant,
             result |-> {rowToEnvVariable(r).id : r \in ScopedRows(userId, multiTenant)},
             stmts |-> {Stmt("env_variables", "read", Bound(userId, multiTenant), FALSE)}]
  /\ UNCHANGED <<dbVars, authA, authB, otherVars>>

getStats(key) ==
  LET userId == StoreUserId(getAuthContext(key))
      multiTenant == checkMultiTenant
      rows == ScopedRows(userId, multiTenant)
  IN
  /\ ret = NoRet
  /\ ret' = [op |-> "getStats", userId |-> userId, multiTenant |-> multiTenant,
             total |-> Cardinality(rows),
             required |-> Cardinality({r \in rows : r.required}),
             stmts |-> {Stmt("env_variables", "read", Bound(userId, multiTenant), FALSE)}]
  /\ UNCHANGED <<dbVars, authA, authB, otherVars>>

\* SELECT user_id, COUNT(*) FROM env_variables GROUP BY user_id
getDebugInfo(key) ==
  LET userId == StoreUserId(getAuthContext(key))
      multiTenant == checkMultiTenant
      users == {r.user_id : r \in env_variables}
  IN
  /\ ret = NoRet
  /\ ret' = [op |-> "getDebugInfo", userId |-> userId, multiTenant |-> multiTenant,
             userCounts |-> {<<u, Cardinality({r \in env_variables : r.user_id = u})>>
                             : u \in users},
             stmts |-> {Stmt("env_variables", "read", None, FALSE)}]
  /\ UNCHANGED <<dbVars, authA, authB, otherVars>>


(***************************************************************************)
(* Search: scores                                                          *)
(***************************************************************************)
Max(a, b) == IF a >= b THEN a ELSE b
Min(a, b) == IF a <= b THEN a ELSE b

RECURSIVE Gcd(_, _)
Gcd(a, b) == IF b = 0 THEN a ELSE Gcd(b, a % b)

RECURSIVE LcmUpTo(_)
LcmUpTo(n) == IF n <= 1 THEN 1 ELSE LET l == LcmUpTo(n - 1) IN (l * n) \div Gcd(l, n)

\* a channel returns at most one hit per row and names are unique
MaxHits == Cardinality(Names)

\* raw channel scores are held in units of 1/RawOne and blended scores in
\* units of 1/FinalOne, so that i/n, 0.1, 0.6, 0.3 and 0.05 are all exact
RawOne == 10 * LcmUpTo(MaxHits)
FinalOne == 10 * RawOne

\* cosine similarities returned by VECTORIZE.query: 0.5, 1.0
SemScores == {RawOne \div 2, RawOne}

\* the position score without the 0.1 floor
PositionScoreNoFloor(one, i, n) == one - (i * one) \div Max(n, 1)

\* Math.max(0.1, 1.0 - i / n) for the 0-based position i of n hits, in units
\* of 1/one (keywordSearch divides by results.length, likeSearch by
\* Math.max(results.length, 1): the same for every hit there is)
PositionScoreOver(one, i, n) == Max(one \div 10, one - (i * one) \div Max(n, 1))

PositionScore(i, n) == PositionScoreOver(RawOne, i, n)

\* result.score * 0.6, result.score * 0.3
SemanticWeight(score) == 6 * score
KeywordWeight(score) == 3 * score

\* a boost of 0.10 per criterion instead of 0.05
BoostTenth(env) ==
  (IF env.required THEN FinalOne \div 10 ELSE 0)
  + (IF env.category = AiServices THEN FinalOne \div 10 ELSE 0)

\* +0.05 if required, +0.05 if category === 'ai_services'
Boost(env) ==
  (IF env.required THEN FinalOne \div 20 ELSE 0)
  + (IF env.category = AiServices THEN FinalOne \div 20 ELSE 0)

(***************************************************************************)
(* Search: queries, options, lexical matching                              *)
(***************************************************************************)
\* words of length <= 1, dropped by filter(word => word.length > 1)
ShortWords == {"k"}
\* words holding a double quote, which break the quoted FTS5 expression
QuoteWords == {"a\"b"}
\* proper substrings among the words of the model
SubstrPairs == {<<"ai", "openai">>, <<"base", "database">>, <<"k", "key">>}

Queries ==
  {<<"secret">>, <<"openai", "k">>, <<"services">>, <<"base">>, <<"k">>,
   <<"a\"b", "secret">>}

DefaultLimit == 10

Opt(category, service, requiredOnly, limit, minScore) ==
  [category |-> category, service |-> service, requiredOnly |-> requiredOnly,
   limit |-> limit, minScore |-> minScore]

DefaultOptions == Opt(None, None, FALSE, 0, 0)

\* limit 0 and minScore 0 stand for an absent (falsy) option
SearchOptionsSet ==
  {Opt(None, None, FALSE, 0, 0),
   Opt(None, None, FALSE, 1, 0),
   Opt(AiServices, None, FALSE, 0, 0),
   Opt(None, <<"supabase">>, FALSE, 0, 0),
   Opt(None, None, TRUE, 0, 0),
   Opt(None, None, FALSE, 0, (6 * RawOne) \div 10),
   Opt(None, None, FALSE, 1, (6 * RawOne) \div 10)}

\* the option sets that filter by category, by service and by required
FilterOptionsSet ==
  {o \in SearchOptionsSet : o.category # None \/ o.service # None \/ o.requiredOnly}

\* options.limit || 10
Limit(options) == IF options.limit = 0 THEN DefaultLimit ELSE options.limit

\* the filters with the service condition left out
PassesFiltersWithoutService(env, options) ==
  /\ options.category # None => env.category = options.category
  /\ options.requiredOnly => env.required

\* category / service / requiredOnly conditions, the same in all channels
PassesFilters(env, options) ==
  /\ options.category # None => env.category = options.category
  /\ options.service # None => env.service = options.service
  /\ options.requiredOnly => env.required

\* query.split(/\s+/).filter(word => word.length > 1)
QueryWords(query) == {query[i] : i \in DOMAIN query} \ ShortWords

\* env_fts indexes name, description, category, service, keywords
FtsTokens(row) ==
  Range(row.name) \cup Range(row.description) \cup Range(row.category)
  \cup Range(row.service) \cup row.keywords

\* env_fts MATCH '"w1" OR "w2" ...'
FtsMatch(row, words) == words \cap FtsTokens(row) # {}

\* LOWER(name) LIKE %w% OR description ... OR service ... OR keywords ...
LikeMatch(row, words) ==
  \E w \in words :
    \E t \in Range(row.name) \cup Range(row.description) \cup Range(row.service)
             \cup row.keywords :
      w = t \/ <<w, t>> \in SubstrPairs

\* all orders in which a statement may return a set of rows
Perms(S) ==
  {f \in [1..Cardinality(S) -> S] : \A x \in S : \E i \in DOMAIN f : f[i] = x}

Take(seq, n) == SubSeq(seq, 1, Min(n, Len(seq)))

\* results.map((row, i) => ({env, score: max(0.1, 1 - i/n), 'keyword'}))
ScoreByPosition(rows) ==
  [i \in 1..Len(rows) |->
     [env |-> rowToEnvVariable(rows[i]), score |-> PositionScore(i - 1, Len(rows)),
      matchType |-> "keyword"]]

\* the FTS statement joined on the records that hold a vector
FtsRowsOfIndexed(userId, query, options, multiTenant, order) ==
  LET hit(r) == /\ FtsMatch(r, QueryWords(query))
                /\ multiTenant => r.user_id = userId
                /\ PassesFilters(r, options)
                /\ r.vector_id # None
  IN  Take(SelectSeq(order, hit), 2 * Limit(options))

\* rows returned by the FTS statement, given the rank order of the index
FtsRows(userId, query, options, multiTenant, order) ==
  LET hit(r) == /\ FtsMatch(r, QueryWords(query))
                /\ multiTenant => r.user_id = userId
                /\ PassesFilters(r, options)
  IN  Take(SelectSeq(order, hit), 2 * Limit(options))

\* rows returned by the LIKE statement, given the scan order
LikeRows(userId, query, options, multiTenant, order) ==
  LET hit(r) == /\ LikeMatch(r, QueryWords(query))
                /\ multiTenant => r.user_id = userId
                /\ PassesFilters(r, options)
  IN  Take(SelectSeq(order, hit), Limit(options))

\* a promise's outcome: the value it resolves to, or threw when it rejects
Resolved(path, hits) == [threw |-> FALSE, path |-> path, hits |-> hits]
Rejected(path) == [threw |-> TRUE, path |-> path, hits |-> <<>>]

\* likeSearch has no try: a failing LIKE statement rejects the promise
likeSearch(userId, query, options, multiTenant, order, likeFails) ==
  IF QueryWords(query) = {} THEN Resolved("empty", <<>>)
  ELSE IF likeFails THEN Rejected("failed")
  ELSE Resolved("like",
                ScoreByPosition(LikeRows(userId, query, options, multiTenant, order)))

\* keywordSearch: the FTS statement inside try, likeSearch from the catch
keywordSearch(userId, query, options, multiTenant, order, ftsFails, likeFails) ==
  IF QueryWords(query) = {} THEN Resolved("empty", <<>>)
  ELSE IF ~ftsFails /\ QueryWords(query) \cap QuoteWords = {}
  THEN Resolved("fts",
                ScoreByPosition(FtsRows(userId, query, options, multiTenant, order)))
  ELSE likeSearch(userId, query, options, multiTenant, order, likeFails)

\* a promise without a catch handler
Uncaught(outcome) == outcome

\* promise.catch(() => [])
CatchToEmpty(outcome) ==
  IF outcome.threw THEN [outcome EXCEPT !.threw = FALSE, !.hits = <<>>] ELSE outcome

(***************************************************************************)
(* Search: semantic channel                                                *)
(***************************************************************************)
\* the loop over vectorResults.matches
RECURSIVE SemanticLoop(_, _, _, _, _, _)
SemanticLoop(matches, i, results, userId, options, multiTenant) ==
  IF i > Len(matches) THEN results
  ELSE
    LET match == matches[i]
        found == getById(userId, match.vector.envVariableId, multiTenant)
        next(res) == SemanticLoop(matches, i + 1, res, userId, options, multiTenant)
    IN  IF found = {} THEN next(results)
        ELSE LET envVar == rowToEnvVariable(CHOOSE r \in found : TRUE) IN
             IF ~PassesFilters(envVar, options) THEN next(results)
             ELSE IF options.minScore # 0 /\ match.score < options.minScore
             THEN next(results)
             ELSE LET pushed == Append(results,
                                  [env |-> envVar, score |-> match.score,
                                   matchType |-> "semantic"])
                  IN  IF Len(pushed) >= Limit(options) THEN pushed ELSE next(pushed)

\* VECTORIZE.query(embedding, {topK, filter: {userId}}): the vectors tagged
\* with the tenant, best score first
VectorMatches(userId, options, score, order) ==
  Take([i \in DOMAIN order |-> [vector |-> order[i], score |-> score[order[i]]]],
       2 * Limit(options))

\* the records whose match the loop skips for its similarity alone:
\* options.minScore && match.score < options.minScore
BelowMinScore(userId, options, score, order, aiFails, vectorizeFails) ==
  IF aiFails \/ vectorizeFails \/ options.minScore = 0 THEN {}
  ELSE LET matches == VectorMatches(userId, options, score, order)
       IN  {matches[i].vector.envVariableId :
              i \in {j \in DOMAIN matches : matches[j].score < options.minScore}}

\* the body of the try block of semanticSearch
SemanticTry(userId, options, multiTenant, score, order, aiFails, vectorizeFails) ==
  IF aiFails \/ vectorizeFails THEN Rejected("semantic")
  ELSE Resolved("semantic",
                SemanticLoop(VectorMatches(userId, options, score, order), 1, <<>>,
                             userId, options, multiTenant))

\* semanticSearch: catch (error) { return [] }
semanticSearch(userId, options, multiTenant, score, order, aiFails, vectorizeFails) ==
  CatchToEmpty(SemanticTry(userId, options, multiTenant, score, order,
                           aiFails, vectorizeFails))


(***************************************************************************)
(* Search: merge, boost, sort, truncate                                    *)
(***************************************************************************)
\* a map that never finds an existing entry
IndexOfNameAbsent(scoreMap, name) == 0

\* scoreMap.get(name): the entry keyed by the record's name, 0 when absent
IndexOfName(scoreMap, name) ==
  IF \E i \in DOMAIN scoreMap : scoreMap[i].env.name = name
  THEN CHOOSE i \in DOMAIN scoreMap : scoreMap[i].env.name = name
  ELSE 0

\* scoreMap.set(result.env.name, {env, scores: [score * 0.6, 0]})
RECURSIVE AddSemantic(_, _, _)
AddSemantic(scoreMap, results, i) ==
  IF i > Len(results) THEN scoreMap
  ELSE LET entry == [env |-> results[i].env,
                     scores |-> <<SemanticWeight(results[i].score), 0>>]
           at == IndexOfName(scoreMap, results[i].env.name)
       IN  AddSemantic(IF at = 0 THEN Append(scoreMap, entry)
                       ELSE [scoreMap EXCEPT ![at] = entry],
                       results, i + 1)

\* existing.scores[1] = score * 0.3, or a new entry with scores [0, score * 0.3]
RECURSIVE AddKeyword(_, _, _)
AddKeyword(scoreMap, results, i) ==
  IF i > Len(results) THEN scoreMap
  ELSE LET at == IndexOfName(scoreMap, results[i].env.name)
           weighted == KeywordWeight(results[i].score)
       IN  AddKeyword(IF at = 0
                      THEN Append(scoreMap, [env |-> results[i].env,
                                             scores |-> <<0, weighted>>])
                      ELSE [scoreMap EXCEPT ![at].scores[2] = weighted],
                      results, i + 1)

\* the matchType written on every merged result
MergedMatchType(entry) == "hybrid"

\* the final score taken as the better channel's contribution, not the sum
FinalizeBestChannel(scoreMap) ==
  [i \in DOMAIN scoreMap |->
     [env |-> scoreMap[i].env,
      score |-> Max(scoreMap[i].scores[1], scoreMap[i].scores[2])
                + Boost(scoreMap[i].env),
      matchType |-> MergedMatchType(scoreMap[i])]]

\* data.scores.push(boost); score = scores.reduce((a, b) => a + b, 0)
Finalize(scoreMap) ==
  [i \in DOMAIN scoreMap |->
     [env |-> scoreMap[i].env,
      score |-> scoreMap[i].scores[1] + scoreMap[i].scores[2] + Boost(scoreMap[i].env),
      matchType |-> MergedMatchType(scoreMap[i])]]

\* a sort that places an element before those of equal score
InsertSortedUnstable(sorted, x) ==
  LET after == {i \in DOMAIN sorted : sorted[i].score > x.score}
      k == IF after = {} THEN 0 ELSE CHOOSE i \in after : \A j \in after : j <= i
  IN  SubSeq(sorted, 1, k) \o <<x>> \o SubSeq(sorted, k + 1, Len(sorted))

\* comparator (a, b) => b.score - a.score: a stays before b unless b scores more
InsertSorted(sorted, x) ==
  LET after == {i \in DOMAIN sorted : sorted[i].score >= x.score}
      k == IF after = {} THEN 0 ELSE CHOOSE i \in after : \A j \in after : j <= i
  IN  SubSeq(sorted, 1, k) \o <<x>> \o SubSeq(sorted, k + 1, Len(sorted))

\* Array.prototype.sort (stable)
RECURSIVE SortByScore(_, _, _)
SortByScore(items, i, sorted) ==
  IF i > Len(items) THEN sorted
  ELSE SortByScore(items, i + 1, InsertSorted(sorted, items[i]))

\* the merged, boosted entries in Map insertion order, before the sort
Merged(semanticResults, keywordResults) ==
  Finalize(AddKeyword(AddSemantic(<<>>, semanticResults, 1), keywordResults, 1))

\* the minScore floor applied once more, to the blended score
RankAboveMinScore(semanticResults, keywordResults, options) ==
  LET above(x) == x.score >= 10 * options.minScore
  IN  Take(SelectSeq(SortByScore(Merged(semanticResults, keywordResults), 1, <<>>),
                     above),
           Limit(options))

Rank(semanticResults, keywordResults, options) ==
  Take(SortByScore(Merged(semanticResults, keywordResults), 1, <<>>), Limit(options))

Faults(ai, vec, fts, like) == [ai |-> ai, vectorize |-> vec, fts |-> fts, like |-> like]

NoFaults == Faults(FALSE, FALSE, FALSE, FALSE)

\* collaborator failures of a search: none, each collaborator alone, the
\* lexical index with its fallback, and every collaborator at once
SearchFaults ==
  {NoFaults, Faults(TRUE, FALSE, FALSE, FALSE), Faults(FALSE, TRUE, FALSE, FALSE),
   Faults(FALSE, FALSE, TRUE, FALSE), Faults(FALSE, FALSE, FALSE, TRUE),
   Faults(FALSE, FALSE, TRUE, TRUE), Faults(TRUE, FALSE, TRUE, TRUE)}

FtsDown == Faults(FALSE, FALSE, TRUE, FALSE)
AiDown == Faults(TRUE, FALSE, FALSE, FALSE)

\* the search requests of the store specification
CoreSearchRequests ==
  {<<(<<"secret">>), DefaultOptions, NoFaults>>,
   <<(<<"base">>), DefaultOptions, FtsDown>>}

\* the search requests of the search specification: every query with the
\* lexical index up and down, the query "secret" under every failure and,
\* with the embedding provider up and down, under every option set, and the
\* quoted query with the fallback down
SearchRequests ==
  {<<q, DefaultOptions, f>> : q \in Queries, f \in {NoFaults, FtsDown}}
  \cup {<<(<<"secret">>), DefaultOptions, f>> : f \in SearchFaults}
  \cup {<<(<<"secret">>), o, f>> : o \in SearchOptionsSet, f \in {NoFaults, AiDown}}
  \cup {<<(<<"a\"b", "secret">>), DefaultOptions, Faults(FALSE, FALSE, FALSE, TRUE)>>}
  \cup {<<(<<"secret">>), o, FtsDown>> : o \in FilterOptionsSet}

\* the credentials of the search specification: none and "A"
SearchCredentials == {NoKey, <<65>>}

\* what the response lists of a sequence of results: the record id stands
\* for the record, which a search leaves unchanged in env_variables
Listed(results) ==
  [i \in DOMAIN results |->
     [id |-> results[i].env.id, score |-> results[i].score,
      matchType |-> results[i].matchType]]

search(key, query, options, faults) ==
  LET userId == StoreUserId(getAuthContext(key))
      multiTenant == checkMultiTenant
      tagged == {v \in vectorize : v.userId = userId}
  IN
  \E score \in [tagged -> SemScores], vorder \in Perms(tagged),
     rorder \in Perms(env_variables) :
    /\ ret = NoRet
    /\ \A i \in 1..(Len(vorder) - 1) : score[vorder[i]] >= score[vorder[i + 1]]
    /\ LET semantic == semanticSearch(userId, options, multiTenant, score, vorder,
                                      faults.ai, faults.vectorize)
           keyword == CatchToEmpty(keywordSearch(userId, query, options, multiTenant,
                                                 rorder, faults.fts, faults.like))
           semanticResults == semantic.hits
       IN  ret' = [op |-> "search", userId |-> userId, multiTenant |-> multiTenant,
                   query |-> query, options |-> options, faults |-> faults,
                   raised |-> (semantic.threw \/ keyword.threw),
                   semantic |-> Listed(semanticResults),
                   keyword |-> Listed(keyword.hits),
                   floored |-> BelowMinScore(userId, options, score, vorder,
                                             faults.ai, faults.vectorize),
                   path |-> keyword.path,
                   result |-> IF semantic.threw \/ keyword.threw THEN <<>>
                              ELSE Listed(Rank(semanticResults, keyword.hits, options)),
                   stmts |-> {Stmt("vectorize", "read", userId, FALSE)
                              : x \in IF faults.ai THEN {} ELSE {1}}
                             \cup {Stmt("env_variables", "read",
                                        Bound(userId, multiTenant), FALSE)
                                   : x \in IF faults.ai \/ faults.vectorize \/ tagged = {}
                                           THEN {} ELSE {1}}
                             \cup {Stmt("env_fts", "read", Bound(userId, multiTenant), FALSE)
                                   : x \in IF keyword.path = "empty" THEN {} ELSE {1}}
                             \cup {Stmt("env_variables", "read",
                                        Bound(userId, multiTenant), FALSE)
                                   : x \in IF keyword.path \in {"like", "failed"}
                                           THEN {1} ELSE {}}]
    /\ UNCHANGED <<dbVars, authA, authB, otherVars>>

\* the response is sent; the worker takes the next request
Respond ==
  /\ ret # NoRet
  /\ ret.op # "searching"
  /\ ret' = NoRet
  /\ UNCHANGED <<dbVars, authA, authB, otherVars>>

(***************************************************************************)
(* Specification of the store                                              *)
(***************************************************************************)
Init ==
  /\ migrated = FALSE
  /\ env_variables = {}
  /\ indexing_status = {}
  /\ vectorize = {}
  /\ nextId = 1
  /\ nextStatusId = 1
  /\ ret = NoRet
  /\ authA = NoAuth
  /\ authB = NoAuth
  /\ matching = 0
  /\ upserts = [p \in Requests |-> Idle]
  /\ lastWrite = NoWrite
  /\ queue = NoQueue
  /\ bulk = NoBulk

Next ==
  \/ ApplyMigration
  \/ \E key \in Credentials, envVar \in EnvVars, fault \in UpsertFaults :
       insertEnvVariable(key, envVar, fault)
  \/ \E key \in Credentials, name \in Names, vectorizeFails \in BOOLEAN :
       deleteByName(key, name, vectorizeFails)
  \/ \E key \in Credentials, failAt \in 0..1 : deleteAll(key, failAt)
  \/ \E key \in Credentials, name \in Names : getByName(key, name)
  \/ \E key \in Credentials : getAll(key)
  \/ \E key \in Credentials : getStats(key)
  \/ \E key \in Credentials : getDebugInfo(key)
  \/ \E key \in Credentials, request \in CoreSearchRequests :
       search(key, request[1], request[2], request[3])
  \/ Respond

Spec == Init /\ [][Next]_vars

(***************************************************************************)
(* Specification of the search: records are upserted and searched          *)
(***************************************************************************)
NextSearch ==
  \/ ApplyMigration
  \/ \E key \in SearchCredentials, envVar \in EnvVars, fault \in UpsertFaults :
       insertEnvVariable(key, envVar, fault)
  \/ \E key \in SearchCredentials, request \in SearchRequests :
       search(key, request[1], request[2], request[3])
  \/ Respond

SpecSearch == Init /\ [][NextSearch]_vars

(***************************************************************************)
(* Specification of the reads: records are upserted and read back by       *)
(* every read operation of the store                                       *)
(***************************************************************************)
\* LOWER(...) of SQLite on the service names of the model
Lower(service) == IF service = <<"OPENAI">> THEN <<"openai">> ELSE service

ServiceArgs == {<<"OPENAI">>, <<"supabase">>}

RecordIds == 1..2

\* getById(id): one SELECT; a D1 failure rejects the call
getByIdRequest(key, id, d1Fails) ==
  LET userId == StoreUserId(getAuthContext(key))
      multiTenant == checkMultiTenant
  IN
  /\ ret = NoRet
  /\ ret' = [op |-> "getById", userId |-> userId, multiTenant |-> multiTenant,
             id |-> id, raised |-> d1Fails,
             result |-> IF d1Fails THEN {}
                        ELSE {rowToEnvVariable(r).id
                              : r \in getById(userId, id, multiTenant)}]
  /\ UNCHANGED <<dbVars, authA, authB, otherVars>>

\* a getByService that clears the rows it has read
getByServiceConsuming(key, service, includeOptional, d1Fails) ==
  LET userId == StoreUserId(getAuthContext(key))
      multiTenant == checkMultiTenant
      results == {r \in env_variables :
                    /\ multiTenant => r.user_id = userId
                    /\ Lower(r.service) = Lower(service)
                    /\ ~includeOptional => r.required}
  IN
  /\ ret = NoRet
  /\ ret' = [op |-> "getByService", userId |-> userId, multiTenant |-> multiTenant,
             service |-> service, includeOptional |-> includeOptional,
             raised |-> d1Fails,
             result |-> IF d1Fails THEN {}
                        ELSE {rowToEnvVariable(r).id : r \in results}]
  /\ env_variables' = IF d1Fails THEN env_variables ELSE env_variables \ results
  /\ UNCHANGED <<migrated, indexing_status, vectorize, nextId, nextStatusId,
                 authA, authB, otherVars>>

\* getByService(service, includeOptional): SELECT ... WHERE [user_id = ? AND]
\* LOWER(service) = LOWER(?) [AND required = 1]
getByService(key, service, includeOptional, d1Fails) ==
  LET userId == StoreUserId(getAuthContext(key))
      multiTenant == checkMultiTenant
      results == {r \in env_variables :
                    /\ multiTenant => r.user_id = userId
                    /\ Lower(r.service) = Lower(service)
                    /\ ~includeOptional => r.required}
  IN
  /\ ret = NoRet
  /\ ret' = [op |-> "getByService", userId |-> userId, multiTenant |-> multiTenant,
             service |-> service, includeOptional |-> includeOptional,
             raised |-> d1Fails,
             result |-> IF d1Fails THEN {}
                        ELSE {rowToEnvVariable(r).id : r \in results}]
  /\ UNCHANGED <<dbVars, authA, authB, otherVars>>

ReadFaults == {NoFaults, FtsDown} \cup
              {f \in {r[3] : r \in SearchRequests} : f.ai \/ f.vectorize}

NextRead ==
  \/ ApplyMigration
  \/ \E key \in SearchCredentials, envVar \in EnvVars, fault \in UpsertFaults :
       insertEnvVariable(key, envVar, fault)
  \/ \E key \in SearchCredentials, faults \in ReadFaults :
       search(key, <<"secret">>, DefaultOptions, faults)
  \/ \E key \in SearchCredentials, name \in Names : getByName(key, name)
  \/ \E key \in SearchCredentials, id \in RecordIds, d1Fails \in BOOLEAN :
       getByIdRequest(key, id, d1Fails)
  \/ \E key \in SearchCredentials, service \in ServiceArgs,
        includeOptional \in BOOLEAN, d1Fails \in BOOLEAN :
       getByService(key, service, includeOptional, d1Fails)
  \/ \E key \in SearchCredentials : getAll(key)
  \/ \E key \in SearchCredentials : getStats(key)
  \/ Respond

SpecRead == Init /\ [][NextRead]_vars

(***************************************************************************)
(* bulkInsert: the loop over the input records, each iteration awaiting    *)
(* insertEnvVariable inside its own try block                               *)
(***************************************************************************)
MaxBulk == 2

RECURSIVE SeqsOfLen(_)
SeqsOfLen(n) ==
  IF n = 0 THEN {<<>>}
  ELSE {Append(q, e) : q \in SeqsOfLen(n - 1), e \in EnvVars}

BulkInputs == UNION {SeqsOfLen(n) : n \in 0..MaxBulk}

IsBulk == bulk # NoBulk

\* let inserted = 0; let indexed = 0;
BulkBegin(key, envVars) ==
  /\ ret = NoRet
  /\ ~IsBulk
  /\ nextStatusId <= MaxWrites
  /\ bulk' = [i |-> 1, key |-> key, envVars |-> envVars,
              inserted |-> 0, indexed |-> 0, log |-> <<>>]
  /\ UNCHANGED <<dbVars, ret, authA, authB, matching, upserts, lastWrite, queue>>

\* await this.insertEnvVariable(envVar)
BulkCall(fault) ==
  /\ IsBulk
  /\ bulk.i <= Len(bulk.envVars)
  /\ insertEnvVariable(bulk.key, bulk.envVars[bulk.i], fault)

\* what one iteration observed of its call: whether the metadata statement
\* returned an id, and whether the record was embedded and its vector is in
\* the index
Observed(result) ==
  [wrote |-> result.id # 0,
   stored |-> /\ result.id # 0
              /\ result.fault = "none"
              /\ \E v \in vectorize :
                   /\ v.id = VectorId(result.userId, result.id)
                   /\ v.text = enrichText(result.envVar)]

\* inserted++; if (result.indexed) indexed++;  or the catch block, which
\* logs the error and goes on with the next record
BulkCount ==
  /\ IsBulk
  /\ ret # NoRet
  /\ ret.op = "insertEnvVariable"
  /\ bulk' = IF ret.raised
             THEN [bulk EXCEPT !.i = @ + 1,
                               !.log = Append(@, Observed(ret))]
             ELSE [bulk EXCEPT !.i = @ + 1,
                               !.inserted = @ + 1,
                               !.indexed = IF ret.indexed THEN @ + 1 ELSE @,
                               !.log = Append(@, Observed(ret))]
  /\ ret' = NoRet
  /\ UNCHANGED <<dbVars, authA, authB, matching, upserts, lastWrite, queue>>

\* return { inserted, indexed }
BulkReturn ==
  /\ IsBulk
  /\ ret = NoRet
  /\ bulk.i > Len(bulk.envVars)
  /\ ret' = [op |-> "bulkInsert", userId |-> StoreUserId(getAuthContext(bulk.key)),
             envVars |-> bulk.envVars, inserted |-> bulk.inserted,
             indexed |-> bulk.indexed, log |-> bulk.log]
  /\ bulk' = NoBulk
  /\ UNCHANGED <<dbVars, authA, authB, matching, upserts, lastWrite, queue>>

\* the tool's response is sent
BulkRespond ==
  /\ ret # NoRet
  /\ ret.op = "bulkInsert"
  /\ Respond

NextBulk ==
  \/ ApplyMigration
  \/ \E key \in SearchCredentials, envVars \in BulkInputs : BulkBegin(key, envVars)
  \/ \E fault \in UpsertFaults : BulkCall(fault)
  \/ BulkCount
  \/ BulkReturn
  \/ BulkRespond

SpecBulk == Init /\ [][NextBulk]_vars

(***************************************************************************)
(* Specification of the tenant resolver: two requests are resolved         *)
(***************************************************************************)
ResolveA(apiKey) ==
  /\ authA = NoAuth
  /\ authA' = getAuthContext(apiKey)
  /\ UNCHANGED <<dbVars, ret, authB, otherVars>>

ResolveB(apiKey) ==
  /\ authB = NoAuth
  /\ authB' = getAuthContext(apiKey)
  /\ UNCHANGED <<dbVars, ret, authA, otherVars>>

NextAuth ==
  \/ \E apiKey \in ApiKeys : ResolveA(apiKey)
  \/ \E apiKey \in ApiKeys : ResolveB(apiKey)

SpecAuth == Init /\ [][NextAuth]_vars


(***************************************************************************)
(* Entry points of search: HTTP GET /search and the MCP tool                *)
(* search_env_variables.  The store holds `matching` records of the caller, *)
(* every one of which matches the query lexically; the lexical index is up. *)
(***************************************************************************)
MaxStored == 52

\* Math.min(..., 50) of the MCP tool
McpLimitCap == 50

\* a limit parameter: absent, or a given integer
NoLimit == [given |-> FALSE, value |-> 0]
GivenLimit(v) == [given |-> TRUE, value |-> v]
LimitParams == {NoLimit} \cup {GivenLimit(v) : v \in {-1, 0, 1, 50, 51, 100}}

\* parseInt(url.searchParams.get('limit') || '10')
HttpLimit(param) == IF param.given THEN param.value ELSE DefaultLimit

\* Math.min((args.limit as number) || 10, 50)
McpLimit(arg) ==
  Min(IF arg.given /\ arg.value # 0 THEN arg.value ELSE DefaultLimit, McpLimitCap)

\* options.limit || 10, as every channel and the final slice read it
StoreLimit(limit) == IF limit = 0 THEN DefaultLimit ELSE limit

\* rows a statement ending in LIMIT k returns of n selected rows: a negative
\* LIMIT is no limit
SqlLimitCount(n, k) == IF k < 0 THEN n ELSE Min(n, k)

\* length of array.slice(0, k) for an array of n elements
SliceCount(n, k) == IF k >= 0 THEN Min(n, k) ELSE Max(n + k, 0)

\* number of results of store.search(query, {limit}) over n matching records:
\* the FTS statement's LIMIT 2 * limit, then the slice of the merged entries
SearchCount(n, limit) ==
  SliceCount(SqlLimitCount(n, 2 * StoreLimit(limit)), StoreLimit(limit))

\* a record matching the query is stored under the caller
StoreMatching ==
  /\ ret = NoRet
  /\ matching < MaxStored
  /\ matching' = matching + 1
  /\ UNCHANGED <<dbVars, ret, authA, authB, upserts, lastWrite, queue, bulk>>

\* GET /search?q=...&limit=...
HttpSearch(hasQuery, param) ==
  /\ ret = NoRet
  /\ ret' = IF ~hasQuery
            THEN [op |-> "entry", entry |-> "http", hasQuery |-> hasQuery,
                  limit |-> param, error |-> TRUE, searched |-> FALSE, count |-> 0]
            ELSE [op |-> "entry", entry |-> "http", hasQuery |-> hasQuery,
                  limit |-> param, error |-> FALSE, searched |-> TRUE,
                  count |-> SearchCount(matching, HttpLimit(param))]
  /\ UNCHANGED <<dbVars, authA, authB, otherVars>>

\* tools/call search_env_variables: store.search(args.query, ...) is called
\* whatever args.query is; with no query both channels throw inside search
\* and are caught
McpSearch(hasQuery, arg) ==
  /\ ret = NoRet
  /\ ret' = [op |-> "entry", entry |-> "mcp", hasQuery |-> hasQuery,
             limit |-> arg, error |-> FALSE, searched |-> TRUE,
             count |-> IF hasQuery THEN SearchCount(matching, McpLimit(arg)) ELSE 0]
  /\ UNCHANGED <<dbVars, authA, authB, otherVars>>

NextEntry ==
  \/ StoreMatching
  \/ \E hasQuery \in BOOLEAN, param \in LimitParams : HttpSearch(hasQuery, param)
  \/ \E hasQuery \in BOOLEAN, arg \in LimitParams : McpSearch(hasQuery, arg)
  \/ Respond

SpecEntry == Init /\ [][NextEntry]_vars


(***************************************************************************)
(* Concurrent upserts: two requests run insertEnvVariable, interleaved at   *)
(* its awaits; each D1 / Vectorize statement is atomic.                     *)
(***************************************************************************)
At(p, pc) == upserts[p].pc = pc

Goto(p, pc) == upserts' = [upserts EXCEPT ![p].pc = pc]

\* the request arrives: the store is constructed and probes the schema
UpsertBegin(p, key, envVar) ==
  /\ At(p, "idle")
  /\ upserts' = [upserts EXCEPT ![p] =
                   [pc |-> "write", userId |-> StoreUserId(getAuthContext(key)),
                    envVar |-> envVar, multiTenant |-> checkMultiTenant,
                    id |-> 0, raised |-> FALSE, indexed |-> FALSE]]
  /\ UNCHANGED <<dbVars, ret, authA, authB, matching, lastWrite, queue, bulk>>

\* 1. the metadata upsert ... RETURNING id
UpsertWrite(p) ==
  LET u == upserts[p]
      w == MetadataWrite(u.userId, u.envVar, u.multiTenant)
  IN
  /\ At(p, "write")
  /\ IF ~w.ok
     THEN /\ upserts' = [upserts EXCEPT ![p].pc = "done", ![p].raised = TRUE]
          /\ UNCHANGED <<env_variables, nextId, lastWrite>>
     ELSE /\ env_variables' = w.rows
          /\ nextId' = IF w.inserted THEN nextId + 1 ELSE nextId
          /\ upserts' = [upserts EXCEPT ![p].pc = "status", ![p].id = w.id]
          /\ lastWrite' = [by |-> p, userId |-> u.userId, envVar |-> u.envVar,
                           id |-> w.id]
  /\ UNCHANGED <<migrated, indexing_status, vectorize, nextStatusId,
                 ret, authA, authB, matching, queue, bulk>>

\* 2. INSERT INTO indexing_status (env_variable_id, status, ...) 'processing'
\* (env_variable_id REFERENCES env_variables(id): the insert is refused, and
\* the request throws outside its try block, when the row is gone)
UpsertStatus(p) ==
  /\ At(p, "status")
  /\ IF \E r \in env_variables : r.id = upserts[p].id
     THEN /\ indexing_status' = indexing_status \cup
               {[id |-> nextStatusId, env_variable_id |-> upserts[p].id,
                 status |-> "processing", error_message |-> NULL,
                 retry_count |-> 0]}
          /\ nextStatusId' = nextStatusId + 1
          /\ Goto(p, "embed")
     ELSE /\ upserts' = [upserts EXCEPT ![p].pc = "done", ![p].raised = TRUE]
          /\ UNCHANGED <<indexing_status, nextStatusId>>
  /\ UNCHANGED <<migrated, env_variables, vectorize, nextId,
                 ret, authA, authB, matching, lastWrite, queue, bulk>>

\* 3. generateEmbedding(enrichText(envVar))
UpsertEmbed(p, fails) ==
  /\ At(p, "embed")
  /\ Goto(p, IF fails THEN "catch" ELSE "vector")
  /\ UNCHANGED <<dbVars, ret, authA, authB, matching, lastWrite, queue, bulk>>

\* 4. VECTORIZE.insert([{id: vectorId, ..., metadata: {userId, envVariableId}}])
UpsertVector(p, fails) ==
  LET u == upserts[p] IN
  /\ At(p, "vector")
  /\ IF fails
     THEN Goto(p, "catch") /\ UNCHANGED vectorize
     ELSE /\ vectorize' = VectorizeInsert(vectorize,
                            [id |-> VectorId(u.userId, u.id), userId |-> u.userId,
                             envVariableId |-> u.id, name |-> u.envVar.name,
                             text |-> enrichText(u.envVar)])
          /\ Goto(p, "mark")
  /\ UNCHANGED <<migrated, env_variables, indexing_status, nextId, nextStatusId,
                 ret, authA, authB, matching, lastWrite, queue, bulk>>

\* 5. UPDATE env_variables SET vector_id = ?, indexed_at = ? WHERE id = ?
UpsertMark(p) ==
  LET u == upserts[p] IN
  /\ At(p, "mark")
  /\ env_variables' = MarkIndexed(env_variables, u.id, VectorId(u.userId, u.id))
  /\ Goto(p, "indexed")
  /\ UNCHANGED <<migrated, indexing_status, vectorize, nextId, nextStatusId,
                 ret, authA, authB, matching, lastWrite, queue, bulk>>

\* 6. UPDATE indexing_status SET status = 'indexed' WHERE env_variable_id = ?
UpsertIndexed(p) ==
  /\ At(p, "indexed")
  /\ indexing_status' = SetStatus(indexing_status, upserts[p].id,
                                  StatusAfter("none"), NULL)
  /\ upserts' = [upserts EXCEPT ![p].pc = "done", ![p].indexed = IndexedFlag("none")]
  /\ UNCHANGED <<migrated, env_variables, vectorize, nextId, nextStatusId,
                 ret, authA, authB, matching, lastWrite, queue, bulk>>

\* catch: UPDATE indexing_status SET status = 'failed', error_message = ?
UpsertCatch(p) ==
  /\ At(p, "catch")
  /\ indexing_status' = SetStatus(indexing_status, upserts[p].id,
                                  StatusAfter("failed"), "failed")
  /\ upserts' = [upserts EXCEPT ![p].pc = "done", ![p].indexed = IndexedFlag("failed")]
  /\ UNCHANGED <<migrated, env_variables, vectorize, nextId, nextStatusId,
                 ret, authA, authB, matching, lastWrite, queue, bulk>>

NextConcurrent ==
  \/ ApplyMigration
  \/ \E p \in Requests, key \in SearchCredentials, envVar \in EnvVars :
       UpsertBegin(p, key, envVar)
  \/ \E p \in Requests : UpsertWrite(p)
  \/ \E p \in Requests : UpsertStatus(p)
  \/ \E p \in Requests, fails \in BOOLEAN : UpsertEmbed(p, fails)
  \/ \E p \in Requests, fails \in BOOLEAN : UpsertVector(p, fails)
  \/ \E p \in Requests : UpsertMark(p)
  \/ \E p \in Requests : UpsertIndexed(p)
  \/ \E p \in Requests : UpsertCatch(p)

SpecConcurrent == Init /\ [][NextConcurrent]_vars

(***************************************************************************)
(* Upserts interleaved with deletions on a migrated database: a deletion   *)
(* runs between two awaits of an upsert in flight; the Vector Index never  *)
(* fails                                                                   *)
(***************************************************************************)
InitMigrated ==
  /\ migrated = TRUE
  /\ env_variables = {}
  /\ indexing_status = {}
  /\ vectorize = {}
  /\ nextId = 1
  /\ nextStatusId = 1
  /\ ret = NoRet
  /\ authA = NoAuth
  /\ authB = NoAuth
  /\ matching = 0
  /\ upserts = [p \in Requests |-> Idle]
  /\ lastWrite = NoWrite
  /\ queue = NoQueue
  /\ bulk = NoBulk

DeleteDuringUpsert(key, name) ==
  /\ deleteByName(key, name, FALSE)
  /\ UNCHANGED upserts

DeleteAllDuringUpsert(key) ==
  /\ deleteAll(key, 0)
  /\ UNCHANGED upserts

NextInterleaved ==
  \/ \E p \in Requests, key \in SearchCredentials, envVar \in EnvVars :
       UpsertBegin(p, key, envVar)
  \/ \E p \in Requests : UpsertWrite(p)
  \/ \E p \in Requests : UpsertStatus(p)
  \/ \E p \in Requests : UpsertEmbed(p, FALSE)
  \/ \E p \in Requests : UpsertVector(p, FALSE)
  \/ \E p \in Requests : UpsertMark(p)
  \/ \E p \in Requests : UpsertIndexed(p)
  \/ \E key \in SearchCredentials, name \in Names : DeleteDuringUpsert(key, name)
  \/ \E key \in SearchCredentials : DeleteAllDuringUpsert(key)
  \/ Respond

SpecInterleaved == InitMigrated /\ [][NextInterleaved]_vars


(***************************************************************************)
(* Parallel search: the two sub-searches of Promise.all settle in any      *)
(* order, each at its own awaits                                           *)
(***************************************************************************)
IsSearching == ret # NoRet /\ ret.op = "searching"

\* the outcomes taken in the order in which the promises settled
PromiseAllInSettleOrder(settled) == <<settled[1].outcome, settled[2].outcome>>

\* const [semanticResults, keywordResults] = await Promise.all([...]): the
\* outcomes in the order of the array, whichever promise settled first
PromiseAll(settled) ==
  <<(CHOOSE x \in Range(settled) : x.channel = "semantic").outcome,
    (CHOOSE x \in Range(settled) : x.channel = "keyword").outcome>>

\* a sub-search settles with its outcome
Settle(channel, outcome) == Append(ret.settled, [channel |-> channel, outcome |-> outcome])

\* checkMultiTenant on the store of the request: the cached flag, else the probe
checkMultiTenantCached == ret.multiTenantEnabled \/ migrated

\* the requests of the parallel-search specification
ParallelRequests == {<<(<<"secret">>), DefaultOptions, f>> : f \in SearchFaults}

\* search is called: both sub-searches are started
SearchBegin(key, query, options, faults) ==
  /\ ret = NoRet
  /\ ret' = [op |-> "searching", userId |-> StoreUserId(getAuthContext(key)),
             query |-> query, options |-> options, faults |-> faults,
             multiTenantEnabled |-> FALSE,
             sem |-> "embed", kw |-> "fts", settled |-> <<>>]
  /\ UNCHANGED <<dbVars, authA, authB, otherVars>>

\* semanticSearch: await this.generateEmbedding(query)
SemanticEmbed ==
  /\ IsSearching /\ ret.sem = "embed"
  /\ ret' = IF ret.faults.ai
            THEN [ret EXCEPT !.sem = "settled",
                             !.settled = Settle("semantic",
                                                CatchToEmpty(Rejected("semantic")))]
            ELSE [ret EXCEPT !.sem = "query"]
  /\ UNCHANGED <<dbVars, authA, authB, otherVars>>

\* semanticSearch: VECTORIZE.query and the loop over the matches (getById)
SemanticQuery ==
  /\ IsSearching /\ ret.sem = "query"
  /\ LET tagged == {v \in vectorize : v.userId = ret.userId} IN
     \E score \in [tagged -> SemScores], vorder \in Perms(tagged) :
       /\ \A i \in 1..(Len(vorder) - 1) : score[vorder[i]] >= score[vorder[i + 1]]
       /\ ret' = [ret EXCEPT
                    !.sem = "settled",
                    !.multiTenantEnabled =
                       IF ret.faults.vectorize \/ tagged = {} THEN @
                       ELSE checkMultiTenantCached,
                    !.settled = Settle("semantic",
                                       semanticSearch(ret.userId, ret.options,
                                                      checkMultiTenantCached, score,
                                                      vorder, FALSE,
                                                      ret.faults.vectorize))]
  /\ UNCHANGED <<dbVars, authA, authB, otherVars>>

\* the FTS statement is refused: a failing index, or a quote in the query
FtsRefused == ret.faults.fts \/ QueryWords(ret.query) \cap QuoteWords # {}

\* keywordSearch: checkMultiTenant and the FTS statement
KeywordFts ==
  /\ IsSearching /\ ret.kw = "fts"
  /\ \E rorder \in Perms(env_variables) :
       ret' = IF QueryWords(ret.query) # {} /\ FtsRefused
              THEN [ret EXCEPT !.kw = "like",
                               !.multiTenantEnabled = checkMultiTenantCached]
              ELSE [ret EXCEPT
                      !.kw = "settled",
                      !.multiTenantEnabled = checkMultiTenantCached,
                      !.settled = Settle("keyword",
                                         CatchToEmpty(
                                           keywordSearch(ret.userId, ret.query,
                                                         ret.options,
                                                         checkMultiTenantCached,
                                                         rorder, FALSE, FALSE)))]
  /\ UNCHANGED <<dbVars, authA, authB, otherVars>>

\* keywordSearch: the catch block runs likeSearch; .catch(() => []) on top
KeywordLike ==
  /\ IsSearching /\ ret.kw = "like"
  /\ \E rorder \in Perms(env_variables) :
       ret' = [ret EXCEPT
                 !.kw = "settled",
                 !.settled = Settle("keyword",
                                    CatchToEmpty(
                                      likeSearch(ret.userId, ret.query, ret.options,
                                                 checkMultiTenantCached, rorder,
                                                 ret.faults.like)))]
  /\ UNCHANGED <<dbVars, authA, authB, otherVars>>

\* both promises have settled: merge, boost, sort, truncate
SearchMerge ==
  /\ IsSearching /\ Len(ret.settled) = 2
  /\ LET all == PromiseAll(ret.settled)
         semanticResults == all[1].hits
         keywordResults == all[2].hits
     IN  ret' = [op |-> "search", userId |-> ret.userId,
                 multiTenant |-> checkMultiTenantCached,
                 query |-> ret.query, options |-> ret.options, faults |-> ret.faults,
                 raised |-> (all[1].threw \/ all[2].threw),
                 semantic |-> Listed(semanticResults),
                 keyword |-> Listed(keywordResults),
                 path |-> (CHOOSE x \in Range(ret.settled) : x.channel = "keyword")
                            .outcome.path,
                 first |-> ret.settled[1].channel,
                 result |-> Listed(Rank(semanticResults, keywordResults, ret.options))]
  /\ UNCHANGED <<dbVars, authA, authB, otherVars>>

NextParallel ==
  \/ ApplyMigration
  \/ \E key \in SearchCredentials, envVar \in EnvVars, fault \in UpsertFaults :
       insertEnvVariable(key, envVar, fault)
  \/ \E key \in SearchCredentials, request \in ParallelRequests :
       SearchBegin(key, request[1], request[2], request[3])
  \/ SemanticEmbed
  \/ SemanticQuery
  \/ KeywordFts
  \/ KeywordLike
  \/ SearchMerge
  \/ Respond

SpecParallel == Init /\ [][NextParallel]_vars

(***************************************************************************)
(* Queue consumer: queue(batch, env) over the messages of                  *)
(* env-indexing-queue                                                      *)
(***************************************************************************)
\* deliveries of one message followed by the model
MaxDeliveries == 5

\* the records whose indexing was queued: one message each
MessageIds == {1, 2}

\* message.body.retryCount as the producer may have set it (absent reads 0)
BodyRetryCounts == 0..3

\* UPDATE indexing_status SET retry_count = ? WHERE env_variable_id = ?
SetRetryCount(table, envId, count) ==
  {IF s.env_variable_id = envId THEN [s EXCEPT !.retry_count = count] ELSE s
   : s \in table}

RECURSIVE Pow2(_)
Pow2(n) == IF n = 0 THEN 1 ELSE 2 * Pow2(n - 1)

\* delaySeconds: Math.min(60 * Math.pow(2, retryCount), 3600), with
\* retryCount = message.body.retryCount || 0
RetryDelay(message) == Min(60 * Pow2(message.body.retryCount), 3600)

\* the record of message m as the producer left it: stored, status 'queued'
QueuedRow(m) ==
  RowOf(m, Anonymous, IF m = 1 THEN EnvOpenAi ELSE EnvDatabase, None, NULL,
        Anonymous, FALSE)

InitQueue ==
  /\ migrated = FALSE
  /\ env_variables = {QueuedRow(m) : m \in MessageIds}
  /\ indexing_status =
       {[id |-> m, env_variable_id |-> m, status |-> "queued",
         error_message |-> NULL, retry_count |-> 0] : m \in MessageIds}
  /\ vectorize = {}
  /\ nextId = 3
  /\ nextStatusId = 3
  /\ ret = NoRet
  /\ authA = NoAuth
  /\ authB = NoAuth
  /\ matching = 0
  /\ upserts = [p \in Requests |-> Idle]
  /\ lastWrite = NoWrite
  /\ bulk = NoBulk
  /\ \E counts \in [MessageIds -> BodyRetryCounts] :
       queue = [m \in MessageIds |->
                  [body |-> [envVariableId |-> m, name |-> QueuedRow(m).name,
                             retryCount |-> counts[m]],
                   state |-> "pending", failures |-> 0, delays |-> <<>>]]

\* one iteration of the loop over batch.messages, the try block completing:
\* status 'processing', embedding, VECTORIZE.insert, vector_id, status
\* 'indexed', message.ack()
QueueIndex(m) ==
  LET vectorId == <<"env", m>> IN
  /\ queue[m].state = "pending"
  /\ vectorize' = VectorizeInsert(vectorize,
                    [id |-> vectorId, userId |-> None, envVariableId |-> m,
                     name |-> queue[m].body.name,
                     text |-> enrichText(QueuedRow(m))])
  /\ env_variables' = MarkIndexed(env_variables, m, vectorId)
  /\ indexing_status' = SetStatus(indexing_status, m, "indexed", NULL)
  /\ queue' = [queue EXCEPT ![m].state = "acked"]
  /\ UNCHANGED <<migrated, nextId, nextStatusId, ret, authA, authB,
                 matching, upserts, lastWrite, bulk>>

\* one iteration with AI.run or VECTORIZE.insert throwing: status
\* 'processing', then the catch block
QueueFail(m, error) ==
  LET retryCount == queue[m].body.retryCount
      processing == SetStatus(indexing_status, m, "processing", NULL)
  IN
  /\ queue[m].state = "pending"
  /\ queue[m].failures < MaxDeliveries
  /\ IF retryCount >= 3
     THEN /\ indexing_status' =
               SetRetryCount(SetStatus(processing, m, "failed", error), m, retryCount)
          /\ queue' = [queue EXCEPT ![m].state = "acked", ![m].failures = @ + 1]
     ELSE /\ indexing_status' = SetRetryCount(processing, m, retryCount + 1)
          /\ queue' = [queue EXCEPT ![m].failures = @ + 1,
                                    ![m].delays = Append(@, RetryDelay(queue[m]))]
  /\ UNCHANGED <<migrated, env_variables, vectorize, nextId, nextStatusId,
                 ret, authA, authB, matching, upserts, lastWrite, bulk>>

NextQueue ==
  \/ \E m \in MessageIds : QueueIndex(m)
  \/ \E m \in MessageIds, error \in {"ai", "vectorize"} : QueueFail(m, error)

SpecQueue == InitQueue /\ [][NextQueue]_vars

(***************************************************************************)
(* Specification of the lexical scores: n hits are scored by position      *)
(***************************************************************************)
\* largest options.limit of the lexical-score specification
MaxLimit == 10

\* LIMIT (limit * 2) of the FTS statement, LIMIT limit of the LIKE statement
MaxReturned(path, limit) == IF path = "fts" THEN 2 * limit ELSE limit

\* results.map((row, i) => ({score: Math.max(0.1, 1.0 - i / n)})) over the n
\* rows a lexical statement returned; scores in units of 1/(10 n), in which
\* i/n and 0.1 are exact
ScoreHits(path, limit, n) ==
  /\ ret = NoRet
  /\ n <= MaxReturned(path, limit)
  /\ ret' = [op |-> "scoreHits", path |-> path, limit |-> limit, n |-> n,
             one |-> 10 * n,
             scores |-> [i \in 1..n |-> PositionScoreOver(10 * n, i - 1, n)]]
  /\ UNCHANGED <<dbVars, authA, authB, otherVars>>

NextLexical ==
  \/ \E path \in {"fts", "like"}, limit \in 1..MaxLimit, n \in 1..(2 * MaxLimit) :
       ScoreHits(path, limit, n)
  \/ Respond

SpecLexical == Init /\ [][NextLexical]_vars

(***************************************************************************)
(* Properties                                                              *)
(***************************************************************************)
RowById(id) == CHOOSE r \in env_variables : r.id = id

IsSearch == ret # NoRet /\ ret.op = "search"
IsGetByName == ret # NoRet /\ ret.op = "getByName"
IsInsert == ret # NoRet /\ ret.op = "insertEnvVariable"

\* ids of the records a search or getByName response carries
ReturnedIds ==
  IF IsSearch THEN {ret.result[i].id : i \in DOMAIN ret.result}
  ELSE IF IsGetByName THEN ret.result
  ELSE {}

\* C1: a record upserted under tenant A is never returned by search or
\* getByName issued under a different tenant B (stated for two tenants with
\* API keys; the anonymous namespace is shared by all unauthenticated callers).
C1_TenantIsolation ==
  \A id \in ReturnedIds :
    (RowById(id).writer # Anonymous /\ ret.userId # Anonymous)
      => RowById(id).writer = ret.userId

\* C2: every statement a store operation issues against env_variables,
\* env_fts or the vector index is filtered by or tagged with the caller's
\* tenant id (statements addressed by a record id that the operation read
\* under the tenant filter are not counted), whatever the probe returned.
C2_EveryStatementTenantScoped ==
  ret # NoRet => \A s \in ret.stmts : s.byId \/ s.tenant = ret.userId

\* C3: two distinct non-empty API keys resolve to distinct tenant ids.
C3_DistinctKeysDistinctTenants ==
  (/\ authA # NoAuth /\ authB # NoAuth
   /\ authA.apiKey # NoKey /\ authB.apiKey # NoKey
   /\ authA.apiKey # authB.apiKey)
  => authA.userId # authB.userId

\* rows of a table that an operation of the tenant sees under a name
KeyRows(table, userId, name, multiTenant) ==
  {r \in table : r.name = name /\ (multiTenant => r.user_id = userId)}

TenantRows(table, userId, multiTenant) ==
  {r \in table : multiTenant => r.user_id = userId}

\* the step is an upsert of a (tenant, name) that holds a record with a
\* different description
ReUpsertStep ==
  /\ ret = NoRet
  /\ ret' # NoRet
  /\ ret'.op = "insertEnvVariable"
  /\ \E r \in KeyRows(env_variables, ret'.userId, ret'.name, ret'.multiTenant) :
       r.description # ret'.envVar.description

C5_PartialFailureWrite ==
  (IsInsert /\ ~ret.raised /\ ret.fault # "none") =>
    /\ ret.indexed = FALSE
    /\ \E r \in env_variables :
         /\ RowsByName(ret.userId, ret.name, ret.multiTenant) = {r}
         /\ r.id = ret.id
         /\ r.description = ret.envVar.description
    /\ StatusOf({ret.id}) # {}
    /\ \A st \in StatusOf({ret.id}) : st.status = "failed"

C5_Witness ==
  /\ IsInsert
  /\ ~ret.raised
  /\ ret.fault = "vectorize"
  /\ ret.multiTenant
  /\ ret.indexed = FALSE
  /\ Cardinality(StatusOf({ret.id})) = 2

\* ids listed by a sequence of results
IdsOf(results) == {results[i].id : i \in DOMAIN results}

\* rows an operation of the caller is let to see by the store
InScope(r) == ret.multiTenant => r.user_id = ret.userId

\* a row whose every upsert failed to embed or to enter the vector index
NeverEmbedded(r) ==
  /\ r.vector_id = None
  /\ StatusOf({r.id}) # {}
  /\ \A st \in StatusOf({r.id}) : st.status = "failed"

\* the lexical statement that ran in the search matches the row
LexicallyMatched(r) ==
  \/ ret.path = "fts" /\ FtsMatch(r, QueryWords(ret.query))
  \/ ret.path = "like" /\ LikeMatch(r, QueryWords(ret.query))

C7_EmbeddingDownKeywordOnly ==
  (IsSearch /\ ret.faults.ai) =>
    /\ ~ret.raised
    /\ IdsOf(ret.result) \subseteq IdsOf(ret.keyword)
    /\ \A i \in DOMAIN ret.result : ret.result[i].matchType = "keyword"

\* rows the substring scan selects for the request
LikeSelected ==
  {r \in env_variables : /\ InScope(r)
                         /\ LikeMatch(r, QueryWords(ret.query))
                         /\ PassesFilters(r, ret.options)}

\* the request's query cannot be run by the lexical index
LexicalIndexFails ==
  /\ QueryWords(ret.query) # {}
  /\ ret.faults.fts \/ QueryWords(ret.query) \cap QuoteWords # {}

\* C8: search never raises; an embedding or vector failure drops the semantic
\* channel, a lexical-index failure falls back to the substring scan, and
\* when both channels and the fallback fail the result is the empty list.
C8_SearchNeverRaises ==
  IsSearch =>
    /\ ~ret.raised
    /\ (ret.faults.ai \/ ret.faults.vectorize) =>
         /\ ret.semantic = <<>>
         /\ IdsOf(ret.result) \subseteq IdsOf(ret.keyword)
         /\ Len(ret.result) = Min(Limit(ret.options), Len(ret.keyword))
    /\ (LexicalIndexFails /\ ~ret.faults.like) =>
         /\ ret.path = "like"
         /\ IdsOf(ret.keyword) \subseteq {r.id : r \in LikeSelected}
         /\ Len(ret.keyword) = Min(Limit(ret.options), Cardinality(LikeSelected))
    /\ (LexicalIndexFails /\ ret.faults.like) =>
         /\ ret.path = "failed"
         /\ ret.keyword = <<>>
         /\ IdsOf(ret.result) = IdsOf(ret.semantic)
    /\ (/\ ret.faults.ai \/ ret.faults.vectorize
        /\ LexicalIndexFails /\ ret.faults.like) => ret.result = <<>>

C8_Witness ==
  /\ IsSearch
  /\ ret.faults.ai /\ ret.faults.fts /\ ret.faults.like
  /\ ret.path = "failed"
  /\ ret.result = <<>>
  /\ ~ret.raised
  /\ \E r \in env_variables :
       InScope(r) /\ FtsMatch(r, QueryWords(ret.query)) /\ r.vector_id # None

\* C9: a result's matchType is "semantic" when only the semantic channel
\* found the record, "keyword" when only the lexical channel did, and
\* "hybrid" when both did.
C9_MatchTypeReflectsChannels ==
  IsSearch =>
    \A i \in DOMAIN ret.result :
      LET id == ret.result[i].id
          sem == id \in IdsOf(ret.semantic)
          kw == id \in IdsOf(ret.keyword)
      IN  ret.result[i].matchType =
            (IF sem /\ kw THEN "hybrid" ELSE IF sem THEN "semantic" ELSE "keyword")

\* 1-based position of a record in a channel's hits, 0 when absent
PositionIn(results, id) ==
  IF id \in IdsOf(results)
  THEN CHOOSE i \in DOMAIN results :
         results[i].id = id /\ \A j \in DOMAIN results : results[j].id = id => i <= j
  ELSE 0

\* position of a candidate in the merge order: semantic hits in channel
\* order, then lexical-only hits in channel order
MergePosition(id) ==
  IF id \in IdsOf(ret.semantic) THEN PositionIn(ret.semantic, id)
  ELSE Len(ret.semantic) + PositionIn(ret.keyword, id)

\* the blended score of a candidate, from the channel scores of the response
FinalScore(id) ==
  (IF id \in IdsOf(ret.semantic)
   THEN 6 * ret.semantic[PositionIn(ret.semantic, id)].score ELSE 0)
  + (IF id \in IdsOf(ret.keyword)
     THEN 3 * ret.keyword[PositionIn(ret.keyword, id)].score ELSE 0)
  + Boost(RowById(id))

\* candidate a is ranked before candidate b
RanksBefore(a, b) ==
  \/ FinalScore(a) > FinalScore(b)
  \/ FinalScore(a) = FinalScore(b) /\ MergePosition(a) < MergePosition(b)

\* C10: the list returned by search is in descending order of final score,
\* results of equal score keep their merge order, and the list is cut to
\* limit after the sort: it holds the limit best-ranked candidates.
C10_SortedStableTruncated ==
  IsSearch =>
    LET res == ret.result
        cand == IdsOf(ret.semantic) \cup IdsOf(ret.keyword)
    IN  /\ \A i \in DOMAIN res :
             res[i].id \in cand /\ res[i].score = FinalScore(res[i].id)
        /\ \A i, j \in DOMAIN res : i < j => RanksBefore(res[i].id, res[j].id)
        /\ Len(res) = Min(Limit(ret.options), Cardinality(cand))
        /\ \A c \in cand \ IdsOf(res) : \A i \in DOMAIN res : RanksBefore(res[i].id, c)

C10_Witness ==
  /\ IsSearch
  /\ Len(ret.result) = 2
  /\ ret.result[1].score = ret.result[2].score
  /\ ret.result[1].id # ret.result[2].id

IsEntry == ret # NoRet /\ ret.op = "entry"

\* C11: on both entry points a search returns at most min(limit, 50) results
\* for a requested limit (stated for limits of at least 1), and at most 10
\* when no limit is given.
C11_ResultsCappedAt50 ==
  (IsEntry /\ ret.hasQuery) =>
    /\ ~ret.limit.given => ret.count <= DefaultLimit
    /\ (ret.limit.given /\ ret.limit.value >= 1) =>
         ret.count <= Min(ret.limit.value, McpLimitCap)

\* the step is a deleteAll served on a database that has the user_id column
DeleteAllStep ==
  /\ ret = NoRet
  /\ ret' # NoRet
  /\ ret'.op = "deleteAll"
  /\ ret'.multiTenant

\* C12: deleteAll(A) leaves A with no record (getStats(A).total = 0) and
\* leaves the records, status rows and vector entries of every other tenant
\* as they were, whatever the indexing state of A's records (stated for a
\* database that has the user_id column).
C12_DeleteAllEmptiesTenantOnly ==
  [][DeleteAllStep =>
       /\ {r \in env_variables' : r.user_id = ret'.userId} = {}
       /\ {r \in env_variables' : r.user_id # ret'.userId}
            = {r \in env_variables : r.user_id # ret'.userId}
       /\ {v \in vectorize' : v.userId # ret'.userId}
            = {v \in vectorize : v.userId # ret'.userId}
       /\ \A r \in env_variables :
            r.user_id # ret'.userId => StatusOf({r.id})' = StatusOf({r.id})
    ]_vars

IsDeleteByName == ret # NoRet /\ ret.op = "deleteByName"

\* C13: deleteByName on an existing record returns true and deletes its
\* indexing_status rows and its metadata row even when the vector index
\* delete fails; the failure does not reach the caller.
C13_DeleteSurvivesVectorFailure ==
  (IsDeleteByName /\ ret.found # {}) =>
    /\ ret.result = TRUE
    /\ ~ret.raised
    /\ \A r \in env_variables : r.id \notin ret.found
    /\ StatusOf(ret.found) = {}

C13_Witness ==
  /\ IsDeleteByName
  /\ ret.multiTenant
  /\ ret.vectorizeFails
  /\ ret.found # {}
  /\ ret.result = TRUE
  /\ \E v \in vectorize : v.id = ret.vectorId

\* the step is a getByName or deleteByName of a name under which the caller
\* holds no record: none it wrote and none stored under its tenant id
MissingNameStep ==
  /\ ret = NoRet
  /\ ret' # NoRet
  /\ ret'.op \in {"getByName", "deleteByName"}
  /\ \A r \in env_variables :
       r.name = ret'.name => (r.writer # ret'.userId /\ r.user_id # ret'.userId)

\* C14: getByName of a name absent from the caller's tenant returns null and
\* deleteByName of such a name returns false; neither changes a record, an
\* indexing_status row or a vector entry, same-named records of other
\* tenants included.
C14_MissingNameIsNegative ==
  [][MissingNameStep =>
       /\ ret'.op = "getByName" => ret'.result = {}
       /\ ret'.op = "deleteByName" => (ret'.result = FALSE /\ ~ret'.raised)
       /\ env_variables' = env_variables
       /\ indexing_status' = indexing_status
       /\ vectorize' = vectorize
    ]_vars

Resolutions == {authA, authB} \ {NoAuth}

C16_MissingQueryRejected ==
  (IsEntry /\ ~ret.hasQuery) => (ret.error /\ ~ret.searched)

BothDone == \A p \in Requests : At(p, "done")

\* the two requests upsert the same (tenant, name)
SameKey ==
  /\ upserts[1].userId = upserts[2].userId
  /\ upserts[1].envVar.name = upserts[2].envVar.name

C18_VectorTagMatchesRecord ==
  \A v \in vectorize :
    \A r \in env_variables : r.id = v.envVariableId => v.userId = r.user_id

\* the step sets the vector_id of record r, which was null or is new
VectorRefSet(r) ==
  /\ r.vector_id # None
  /\ \A o \in env_variables : o.id = r.id => o.vector_id = None

\* C19: in every state a reader can see, a record has vector_id set if and
\* only if it has indexed_at set; a new record has both null, and they
\* become set only once the record's vector is in the index.
C19_VectorRefAndIndexedAtTogether ==
  /\ [](\A r \in env_variables : r.vector_id # None <=> r.indexed_at # NULL)
  /\ [][\A r \in env_variables' :
          /\ VectorRefSet(r) => \E v \in vectorize' : v.id = r.vector_id
          /\ (\A o \in env_variables : o.id # r.id) =>
               (r.vector_id = None /\ r.indexed_at = NULL)
       ]_vars

C19_Witness ==
  \E r \in env_variables :
    /\ r.vector_id # None /\ r.indexed_at # NULL
    /\ \E p \in Requests : upserts[p].pc = "catch" /\ upserts[p].id = r.id

\* the raw score a channel gave the record, 0 when the channel did not find it
ChannelScore(hits, id) ==
  IF id \in IdsOf(hits) THEN hits[PositionIn(hits, id)].score ELSE 0

\* 0.05 for a required record plus 0.05 for one of category ai_services
MetadataBoost(id) ==
  (IF RowById(id).required THEN FinalOne \div 20 ELSE 0)
  + (IF RowById(id).category = AiServices THEN FinalOne \div 20 ELSE 0)

\* C20: the final score of each result is 0.6 x its semantic score (0 when
\* the semantic channel did not find it) + 0.3 x its lexical score (0 when
\* the lexical channel did not find it) + its metadata boost; a record found
\* by both channels gets both contributions.  Scores are in units of
\* 1/FinalOne, channel scores in units of 1/RawOne = 10/FinalOne.
C20_FinalScoreIsWeightedSum ==
  IsSearch =>
    \A i \in DOMAIN ret.result :
      ret.result[i].score * 10 =
        6 * (10 * ChannelScore(ret.semantic, ret.result[i].id))
        + 3 * (10 * ChannelScore(ret.keyword, ret.result[i].id))
        + 10 * MetadataBoost(ret.result[i].id)

C20_Witness ==
  /\ IsSearch
  /\ \E i \in DOMAIN ret.result :
       /\ ChannelScore(ret.semantic, ret.result[i].id) > 0
       /\ ChannelScore(ret.keyword, ret.result[i].id) > 0
       /\ MetadataBoost(ret.result[i].id) > 0
       /\ ret.result[i].score >
            6 * ChannelScore(ret.semantic, ret.result[i].id) + MetadataBoost(ret.result[i].id)

\* what a result's score holds beyond the two channel contributions
BoostPart(i) ==
  ret.result[i].score
  - 6 * ChannelScore(ret.semantic, ret.result[i].id)
  - 3 * ChannelScore(ret.keyword, ret.result[i].id)

\* C21: for every search result (similarities in [0, 1]) the semantic
\* contribution lies in [0, 0.6], the lexical contribution, when the lexical
\* channel found the record, lies in [0.03, 0.3], the boost is 0, 0.05 or
\* 0.10, and the total is at most 1.0.
C21_ContributionsBounded ==
  IsSearch =>
    \A i \in DOMAIN ret.result :
      LET id == ret.result[i].id
          sem == 6 * ChannelScore(ret.semantic, id)
          lex == 3 * ChannelScore(ret.keyword, id)
      IN  /\ 0 <= sem /\ 10 * sem <= 6 * FinalOne
          /\ id \in IdsOf(ret.keyword) => (100 * lex >= 3 * FinalOne /\ 10 * lex <= 3 * FinalOne)
          /\ id \notin IdsOf(ret.keyword) => lex = 0
          /\ 20 * BoostPart(i) \in {0, FinalOne, 2 * FinalOne}
          /\ ret.result[i].score <= FinalOne

\* a result that reaches every upper bound: total exactly 1.0
C21_Witness ==
  /\ IsSearch
  /\ \E i \in DOMAIN ret.result :
       /\ 10 * 6 * ChannelScore(ret.semantic, ret.result[i].id) = 6 * FinalOne
       /\ 10 * 3 * ChannelScore(ret.keyword, ret.result[i].id) = 3 * FinalOne
       /\ 10 * BoostPart(i) = FinalOne
       /\ ret.result[i].score = FinalOne

IsScoreHits == ret # NoRet /\ ret.op = "scoreHits"

\* C22: on the FTS path and on the substring fallback, the hit at 0-based
\* position i of n returned hits scores max(0.1, 1 - i/n): the first hit
\* scores 1.0, scores never increase with position and every score lies in
\* [0.1, 1], for every n from 1 to 2 x limit.
C22_LexicalScoreByPosition ==
  IsScoreHits =>
    LET n == ret.n
        one == ret.one
    IN  /\ Len(ret.scores) = n
        /\ ret.scores[1] = one
        /\ \A k \in 1..n :
             /\ 10 * n * ret.scores[k] = Max(n * one, 10 * (n - (k - 1)) * one)
             /\ 10 * ret.scores[k] >= one
             /\ ret.scores[k] <= one
        /\ \A k \in 1..(n - 1) : ret.scores[k] >= ret.scores[k + 1]

\* 2 x limit hits on the FTS path: the last hits sit on the 0.1 floor
C22_Witness ==
  /\ IsScoreHits
  /\ ret.path = "fts" /\ ret.n = 2 * ret.limit /\ ret.n > 10
  /\ 10 * ret.scores[ret.n] = ret.one
  /\ ret.scores[ret.n - 1] = ret.scores[ret.n]
  /\ ret.scores[1] = ret.one

\* C23: every result of a search satisfies all supplied filters (category,
\* service, required when requiredOnly is set), whichever channel produced
\* it: semantic, FTS or the substring fallback.
C23_ResultsSatisfyFilters ==
  IsSearch =>
    \A i \in DOMAIN ret.result :
      LET row == RowById(ret.result[i].id) IN
        /\ ret.options.category # None => row.category = ret.options.category
        /\ ret.options.service # None => row.service = ret.options.service
        /\ ret.options.requiredOnly => row.required

\* a filtered search served by the semantic channel and the substring
\* fallback, with an indexed record that matches the query but not the filter
C23_Witness ==
  /\ IsSearch
  /\ ret.path = "like"
  /\ ret.options.service # None
  /\ ret.semantic # <<>> /\ ret.keyword # <<>> /\ ret.result # <<>>
  /\ \E r \in env_variables :
       /\ r.service # ret.options.service
       /\ r.vector_id # None
       /\ LikeMatch(r, QueryWords(ret.query))
       /\ ret.multiTenant => r.user_id = ret.userId

\* the record is listed with its lexical contribution and boost only
ReturnedLexicalOnly(id) ==
  \E i \in DOMAIN ret.result :
    /\ ret.result[i].id = id
    /\ ret.result[i].score = 3 * ChannelScore(ret.keyword, id) + MetadataBoost(id)

\* C24 as stated: a record whose similarity is below minScore has semantic
\* contribution 0 and is still returned, with its lexical contribution and
\* boost, whenever the lexical channel matches it.
C24_FlooredStillReturned ==
  IsSearch =>
    \A id \in ret.floored :
      /\ id \notin IdsOf(ret.semantic)
      /\ id \in IdsOf(ret.keyword) => ReturnedLexicalOnly(id)

\* C24: minScore is applied to the semantic channel only: a record whose
\* similarity is below minScore has semantic contribution 0 and, when the
\* lexical channel matches it, is still returned with its lexical
\* contribution and boost, unless limit results that score at least as much
\* fill the response.
C24_FlooredReturnedWithinLimit ==
  IsSearch =>
    \A id \in ret.floored :
      /\ id \notin IdsOf(ret.semantic)
      /\ id \in IdsOf(ret.keyword) =>
           \/ ReturnedLexicalOnly(id)
           \/ /\ Len(ret.result) = Limit(ret.options)
              /\ \A i \in DOMAIN ret.result :
                   ret.result[i].score
                     >= 3 * ChannelScore(ret.keyword, id) + MetadataBoost(id)

\* a floored record returned on its lexical match beside a semantic hit
C24_Witness ==
  /\ IsSearch
  /\ ret.semantic # <<>>
  /\ \E id \in ret.floored : id \in IdsOf(ret.keyword) /\ ReturnedLexicalOnly(id)

\* C25: no record appears more than once in a search result: a record
\* returned by both the semantic and the lexical channel yields exactly one
\* result entry.
C25_NoDuplicateResults ==
  IsSearch =>
    /\ \A i, j \in DOMAIN ret.result : ret.result[i].id = ret.result[j].id => i = j
    /\ \A i, j \in DOMAIN ret.result :
         RowById(ret.result[i].id).name = RowById(ret.result[j].id).name => i = j

\* two records found by both channels, each listed once
C25_Witness ==
  /\ IsSearch
  /\ Len(ret.result) = 2
  /\ \A i \in DOMAIN ret.result :
       /\ ret.result[i].id \in IdsOf(ret.semantic) \cap IdsOf(ret.keyword)
       /\ Cardinality({j \in DOMAIN ret.result : ret.result[j].id = ret.result[i].id}) = 1

\* C26: the two sub-searches are independent: whichever settles first, the
\* response lists the semantic hits as semantic and the lexical hits as
\* lexical and ranks the candidates by their blended scores, and when one
\* channel fails the other channel's hits are returned with their
\* contributions.
C26_ChannelsIndependent ==
  IsSearch =>
    LET res == ret.result
        cand == IdsOf(ret.semantic) \cup IdsOf(ret.keyword)
    IN  /\ ~ret.raised
        /\ \A i \in DOMAIN ret.semantic : ret.semantic[i].matchType = "semantic"
        /\ \A i \in DOMAIN ret.keyword : ret.keyword[i].matchType = "keyword"
        /\ IdsOf(res) \subseteq cand
        /\ Len(res) = Min(Limit(ret.options), Cardinality(cand))
        /\ \A i \in DOMAIN res :
             res[i].score = 6 * ChannelScore(ret.semantic, res[i].id)
                            + 3 * ChannelScore(ret.keyword, res[i].id)
                            + MetadataBoost(res[i].id)
        /\ \A i, j \in DOMAIN res : i < j => RanksBefore(res[i].id, res[j].id)
        /\ (ret.faults.ai \/ ret.faults.vectorize) =>
             /\ ret.semantic = <<>>
             /\ \A i \in DOMAIN res :
                  res[i].score = 3 * ChannelScore(ret.keyword, res[i].id)
                                 + MetadataBoost(res[i].id)
        /\ ret.path = "failed" =>
             /\ ret.keyword = <<>>
             /\ \A i \in DOMAIN res :
                  res[i].score = 6 * ChannelScore(ret.semantic, res[i].id)
                                 + MetadataBoost(res[i].id)

\* the lexical channel settled first and both channels found the record
C26_Witness ==
  /\ IsSearch
  /\ ret.first = "keyword"
  /\ \E i \in DOMAIN ret.result :
       ret.result[i].id \in IdsOf(ret.semantic) \cap IdsOf(ret.keyword)

\* the moves the status of an indexing_status row may make
StatusEdges ==
  {<<"queued", "processing">>, <<"processing", "indexed">>, <<"processing", "failed">>}

\* C27: an Indexing Status is only ever queued, processing, indexed or
\* failed, starts as queued or processing, and only moves along
\* queued -> processing -> indexed or processing -> failed; when an upsert
\* has returned, no status of its record written so far is still processing.
C27_StatusMovesForward ==
  [][/\ \A t \in indexing_status' :
          /\ t.status \in {"queued", "processing", "indexed", "failed"}
          /\ (\A s \in indexing_status : s.id # t.id) =>
               t.status \in {"queued", "processing"}
          /\ \A s \in indexing_status :
               (s.id = t.id /\ s.status # t.status) =>
                 <<s.status, t.status>> \in StatusEdges
     /\ \A p \in Requests :
          (upserts[p].pc # "done" /\ upserts'[p].pc = "done") =>
            \A t \in indexing_status' :
              t.env_variable_id = upserts'[p].id => t.status # "processing"
    ]_vars

\* C28: an upsert creates the record's Indexing Status row if none exists
\* and otherwise resets the existing one: after any number of upserts of the
\* same (tenant, name) the record has exactly one Indexing Status row, and it
\* describes the outcome of the latest upsert.
C28_OneStatusRowPerRecord ==
  (IsInsert /\ ~ret.raised) =>
    LET rows == {s \in indexing_status : s.env_variable_id = ret.id}
    IN  /\ Cardinality(rows) = 1
        /\ \A s \in rows : s.status = (IF ret.indexed THEN "indexed" ELSE "failed")

RECURSIVE Flatten(_)
Flatten(batches) ==
  IF batches = <<>> THEN <<>> ELSE Head(batches) \o Flatten(Tail(batches))

\* C30: deleteAll passes the tenant's vector ids to the vector index in
\* consecutive batches of at most 100 ids; when no batch fails every vector
\* id of the tenant is passed exactly once, and when a batch fails the
\* tenant's metadata rows are still all deleted (stated for a database that
\* has the user_id column).
C30_BatchedVectorDelete ==
  [][DeleteAllStep =>
       LET passed == Flatten(ret'.sent)
           ids == {r.vector_id : r \in {x \in env_variables :
                                          /\ x.user_id = ret'.userId
                                          /\ x.vector_id # None}}
       IN  /\ \A i \in DOMAIN ret'.sent :
                Len(ret'.sent[i]) >= 1 /\ Len(ret'.sent[i]) <= batchSize
           /\ Range(passed) \subseteq ids
           /\ \A i, j \in DOMAIN passed : passed[i] = passed[j] => i = j
           /\ ~ret'.failed => Range(passed) = ids
           /\ ret'.failed => {r \in env_variables' : r.user_id = ret'.userId} = {}
    ]_vars

\* the step is an upsert whose metadata write was refused by the record store
RaisedInsertStep ==
  /\ ret = NoRet
  /\ ret' # NoRet
  /\ ret'.op = "insertEnvVariable"
  /\ ret'.raised

\* C31: when the record store fails on the metadata write of an upsert, the
\* upsert raises to the caller and no metadata row, Indexing Status row or
\* vector index entry is created or changed.
C31_FailedWriteChangesNothing ==
  [][RaisedInsertStep =>
       /\ ret'.id = 0 /\ ~ret'.indexed
       /\ env_variables' = env_variables
       /\ indexing_status' = indexing_status
       /\ vectorize' = vectorize
       /\ nextId' = nextId /\ nextStatusId' = nextStatusId
    ]_vars

\* an upsert has raised on a store that holds a record, a status row and a
\* vector entry
C31_Witness ==
  /\ IsInsert /\ ret.raised
  /\ env_variables # {} /\ indexing_status # {} /\ vectorize # {}
  /\ \A r \in env_variables : r.name = ret.name => r.description # ret.envVar.description

\* the status row of the record of message m
StatusOfMessage(m) == CHOOSE s \in indexing_status : s.env_variable_id = m

\* C32: a message that arrives without a retry count and fails on every
\* delivery is retried at most three times, with delays 60 s, 120 s and
\* 240 s, and on the fourth failure it is marked failed with its error
\* message and retry count 3 and acknowledged.
C32_RetriedThreeTimesThenFailed ==
  queue # NoQueue =>
    \A m \in MessageIds :
      (queue[m].body.retryCount = 0 /\ queue[m].failures >= 1) =>
        /\ Len(queue[m].delays) <= 3
        /\ \A i \in DOMAIN queue[m].delays : queue[m].delays[i] = 60 * Pow2(i - 1)
        /\ queue[m].failures >= 4 =>
             /\ queue[m].state = "acked"
             /\ StatusOfMessage(m).status = "failed"
             /\ StatusOfMessage(m).error_message # NULL
             /\ StatusOfMessage(m).retry_count = 3

\* C33: after an upsert has returned indexed: true, the vector stored in the
\* vector index for the record is the embedding of the enriched text of the
\* record as just written, not of an earlier version.
C33_VectorOfLatestContent ==
  (IsInsert /\ ~ret.raised /\ ret.indexed) =>
    \A v \in vectorize :
      v.id = VectorId(ret.userId, ret.id) => v.text = enrichText(ret.envVar)

\* C34: with a Vector Index that never fails, once every concurrent upsert,
\* deleteByName and deleteAll has completed, every vector refers to an
\* existing record of the same tenant whose vector_id is the vector's id, and
\* no upsert has reported indexed: true for a record that no longer exists
Quiescent ==
  /\ ret = NoRet
  /\ \A p \in Requests : upserts[p].pc \in {"idle", "done"}

C34_NoOrphanVectors ==
  Quiescent =>
    \A v \in vectorize :
      \E r \in env_variables :
        /\ r.id = v.envVariableId
        /\ r.user_id = v.userId
        /\ r.vector_id = v.id

\* C35: search, getByName, getById, getByService, getAll and getStats leave
\* the records, the indexing-status rows and the vectors of every tenant
\* unchanged, also when a channel or a collaborator fails during the read
ReadOps == {"search", "getByName", "getById", "getByService", "getAll", "getStats"}

ReadStep == ret = NoRet /\ ret' # NoRet /\ ret'.op \in ReadOps

C35_ReadsChangeNothing ==
  [][ReadStep => UNCHANGED <<env_variables, indexing_status, vectorize>>]_vars

C35_Witness ==
  /\ ret # NoRet
  /\ ret.op \in {"search", "getByService"}
  /\ ret.raised
  /\ env_variables # {}
  /\ indexing_status # {}
  /\ vectorize # {}

\* C36: no non-empty credential resolves to 'anonymous': the tenant id of
\* every credential has the form user_<hash>, and so a record written with an
\* API key is never stored in the shared anonymous namespace
HasUserForm(userId) ==
  /\ Len(userId) > Len(UserPrefix)
  /\ SubSeq(userId, 1, Len(UserPrefix)) = UserPrefix

C36_KeyedDataOutsideAnonymous ==
  /\ \A key \in Credentials \ {NoKey} :
       /\ StoreUserId(getAuthContext(key)) # Anonymous
       /\ HasUserForm(StoreUserId(getAuthContext(key)))
  /\ migrated =>
       \A r \in env_variables : r.writer # Anonymous => r.user_id # Anonymous

\* C37: bulkInsert processes every input record, also after the insert of an
\* earlier one has raised, and its counts satisfy indexed <= inserted <=
\* number of inputs, inserted counting the inputs whose metadata write
\* succeeded and indexed those of them that were embedded and stored
IsBulkInsert == ret # NoRet /\ ret.op = "bulkInsert"

C37_BulkInsertCounts ==
  IsBulkInsert =>
    /\ Len(ret.log) = Len(ret.envVars)
    /\ ret.indexed <= ret.inserted
    /\ ret.inserted <= Len(ret.envVars)
    /\ ret.inserted = Cardinality({i \in DOMAIN ret.log : ret.log[i].wrote})
    /\ ret.indexed = Cardinality({i \in DOMAIN ret.log : ret.log[i].stored})
====
